---- MODULE Spec2Model ----
(***************************************************************************)
(* A model of the schema-to-feature-model compiler of fm-json-Kubernetes:  *)
(*   scripts/model_generation/convert01.py        (feature tree builder)   *)
(*   scripts/model_generation/analisisScript01.py (constraint synthesis)   *)
(*                                                                         *)
(* Python strings are TLA+ strings: TLC evaluates Len, \o and SubSeq on    *)
(* them, so names, descriptions and constraints are modelled character by  *)
(* character.  Each regular expression of the source is written as an      *)
(* index-based matcher over the string.  The backquote character cannot   *)
(* be written inside a TLA+ string; it is written BQ (the character ^)     *)
(* everywhere, in the inputs and in the patterns alike.                    *)
(***************************************************************************)
EXTENDS Integers, Sequences, FiniteSets, TLC

(***************************************************************************)
(* Bounds of the model.                                                    *)
(***************************************************************************)
\* most properties drawn for the first definition of a document
MaxProps == 2
\* cap on the depth of the parse_properties call stack (never reached by
\* the code's own cycle guard, see DepthWithinCap)
MaxDepth == 9
\* most records in a descriptions file handed to generar_constraintsDef
MaxRecords == 2

(***************************************************************************)
(* Strings.                                                                *)
(***************************************************************************)
BQ == "^"
DQ == "\""
SQ == "'"

Min(S) == CHOOSE x \in S : \A y \in S : x <= y
Max(S) == CHOOSE x \in S : \A y \in S : x >= y

At(s, i) == IF i >= 1 /\ i <= Len(s) THEN SubSeq(s, i, i) ELSE ""

StartsAt(s, i, sub) ==
    /\ i >= 1
    /\ i + Len(sub) - 1 <= Len(s)
    /\ SubSeq(s, i, i + Len(sub) - 1) = sub

\* Python: sub in s
Contains(s, sub) == \E i \in 1..(Len(s) - Len(sub) + 1) : StartsAt(s, i, sub)

\* Python: s.find(sub, from), 1-based, 0 when absent
Find(s, sub, from) ==
    LET P == {i \in from..(Len(s) - Len(sub) + 1) : StartsAt(s, i, sub)}
    IN  IF P = {} THEN 0 ELSE Min(P)

\* Python: s.rfind(sub), 1-based, 0 when absent
RFind(s, sub) ==
    LET P == {i \in 1..(Len(s) - Len(sub) + 1) : StartsAt(s, i, sub)}
    IN  IF P = {} THEN 0 ELSE Max(P)

EndsWith(s, sub) == Len(sub) <= Len(s) /\ StartsAt(s, Len(s) - Len(sub) + 1, sub)

From(s, i) == SubSeq(s, i, Len(s))

\* Python: s.replace(a, b)
RECURSIVE Replace(_, _, _)
Replace(s, a, b) ==
    LET i == Find(s, a, 1)
    IN  IF a = "" \/ i = 0 THEN s
        ELSE SubSeq(s, 1, i - 1) \o b \o Replace(From(s, i + Len(a)), a, b)

\* Python: s.split(sep)
RECURSIVE Split(_, _)
Split(s, sep) ==
    LET i == Find(s, sep, 1)
    IN  IF i = 0 THEN <<s>>
        ELSE <<SubSeq(s, 1, i - 1)>> \o Split(From(s, i + Len(sep)), sep)

\* Python: s.rsplit('_', 1)[0]
RSplitHead(s, sep) ==
    LET i == RFind(s, sep) IN IF i = 0 THEN s ELSE SubSeq(s, 1, i - 1)

UpperChars == <<"A","B","C","D","E","F","G","H","I","J","K","L","M",
                "N","O","P","Q","R","S","T","U","V","W","X","Y","Z">>
LowerChars == <<"a","b","c","d","e","f","g","h","i","j","k","l","m",
                "n","o","p","q","r","s","t","u","v","w","x","y","z">>
DigitChars == {"0","1","2","3","4","5","6","7","8","9"}
UpperSet == {UpperChars[i] : i \in 1..26}
LowerSet == {LowerChars[i] : i \in 1..26}
LetterSet == UpperSet \cup LowerSet
\* \w of the regular expressions
WordSet == LetterSet \cup DigitChars \cup {"_"}
\* \s of the regular expressions
SpaceSet == {" ", "\t", "\n", "\r"}

LowerChar(c) ==
    IF c \in UpperSet
    THEN LowerChars[CHOOSE i \in 1..26 : UpperChars[i] = c]
    ELSE c

UpperChar(c) ==
    IF c \in LowerSet
    THEN UpperChars[CHOOSE i \in 1..26 : LowerChars[i] = c]
    ELSE c

\* Python: s.lower()
RECURSIVE Lower(_)
Lower(s) ==
    IF s = "" THEN ""
    ELSE IF Len(s) = 1 THEN LowerChar(s)
    ELSE Lower(SubSeq(s, 1, Len(s) \div 2)) \o Lower(From(s, Len(s) \div 2 + 1))

\* Python: s.capitalize()
Capitalize(s) == IF s = "" THEN "" ELSE UpperChar(At(s, 1)) \o Lower(From(s, 2))

\* index just after the longest run of characters of class C starting at i
RunEnd(s, i, C) ==
    IF i > Len(s) THEN i
    ELSE CHOOSE j \in i..(Len(s) + 1) :
            /\ j > Len(s) \/ At(s, j) \notin C
            /\ \A k \in i..(j - 1) : At(s, k) \in C

\* Python: s.strip()
Strip(s) ==
    LET a == RunEnd(s, 1, SpaceSet)
        E == {j \in a..Len(s) : At(s, j) \notin SpaceSet}
    IN  IF E = {} THEN "" ELSE SubSeq(s, a, Max(E))

\* Python: s.strip(chars)
StripChars(s, C) ==
    LET a == RunEnd(s, 1, C)
        E == {j \in a..Len(s) : At(s, j) \notin C}
    IN  IF E = {} THEN "" ELSE SubSeq(s, a, Max(E))

\* Python: s.isdigit() for the ASCII digits
IsDigits(s) == s # "" /\ \A i \in 1..Len(s) : At(s, i) \in DigitChars

DigitVal(c) == CHOOSE d \in 0..9 : ToString(d) = c

\* Python: int(s) of a digit string
RECURSIVE IntOf(_)
IntOf(s) ==
    IF s = "" THEN 0
    ELSE 10 * IntOf(SubSeq(s, 1, Len(s) - 1)) + DigitVal(At(s, Len(s)))

\* Python: str(n), f"{n}"
StrOf(n) == ToString(n)

Range(q) == {q[i] : i \in 1..Len(q)}

RECURSIVE Join(_, _)
Join(q, sep) ==
    IF q = <<>> THEN ""
    ELSE IF Len(q) = 1 THEN q[1]
    ELSE q[1] \o sep \o Join(Tail(q), sep)

(***************************************************************************)
(* JSON schema documents.  A missing key is the empty string (or FALSE for *)
(* the has... flags); a property list is a sequence in the document's      *)
(* declared order, as Python's dict iterates it.                           *)
(***************************************************************************)
NoItems == [ref |-> "", type |-> ""]
NoAddl  == [ref |-> "", type |-> "", hasItems |-> FALSE, itemsType |-> ""]

\* a property's details: {"type":..., "description":..., "$ref":..., "items":...,
\* "additionalProperties":..., "properties":..., "required":..., "enum":...}
Prop(name, type, description) ==
    [name |-> name, type |-> type, description |-> description, ref |-> "",
     hasItems |-> FALSE, items |-> NoItems, hasAddl |-> FALSE, addl |-> NoAddl,
     hasProperties |-> FALSE, properties |-> <<>>, required |-> <<>>, enum |-> <<>>]

\* a schema of the definitions mapping
Schema(properties, required, type, description) ==
    [hasProperties |-> TRUE, properties |-> properties, required |-> required,
     type |-> type, description |-> description, hasOneOf |-> FALSE, oneOf |-> <<>>]

SimpleSchema(type, description) ==
    [hasProperties |-> FALSE, properties |-> <<>>, required |-> <<>>,
     type |-> type, description |-> description, hasOneOf |-> FALSE, oneOf |-> <<>>]

OneOfSchema(options) ==
    [hasProperties |-> FALSE, properties |-> <<>>, required |-> <<>>,
     type |-> "", description |-> "", hasOneOf |-> TRUE, oneOf |-> options]

\* Python: not schema (an empty dict)
IsEmptyDict(schema) ==
    /\ ~schema.hasProperties
    /\ ~schema.hasOneOf
    /\ schema.type = ""
    /\ schema.description = ""
    /\ schema.required = <<>>

\* Python: the result None of resolve_reference
None == [hasProperties |-> FALSE, properties |-> <<>>, required |-> <<>>,
         type |-> "None", description |-> "", hasOneOf |-> FALSE, oneOf |-> <<>>]

(***************************************************************************)
(* SchemaProcessor: the pure helpers.                                      *)
(***************************************************************************)
sanitize_name(name) == Replace(Replace(Replace(name, "-", "_"), ".", "_"), "$", "")

\* the returned type
sanitize_type_data(type_data) ==
    IF type_data \in {"array"} THEN "Boolean"
    ELSE IF type_data \in {"Object", "object"} THEN "Boolean"
    ELSE IF type_data \in {"number", "Number"} THEN "Integer"
    ELSE IF type_data = "Boolean" THEN ""
    ELSE type_data

\* self.is_cardinality after the call
sanitize_type_data_cardinality(type_data, is_card) ==
    IF type_data \in {"array", "Object", "object"} THEN TRUE ELSE is_card

\* definitions.get(name, {}) of the "definitions" mapping: 0 when absent
DefIndex(defs, name) ==
    LET P == {i \in 1..Len(defs) : defs[i].name = name}
    IN  IF P = {} THEN 0 ELSE Min(P)

\* the uncached walk of resolve_reference: the parts of the pointer are
\* looked up from the document root; the model's documents hold the one
\* top-level key "definitions", and pointers of at most two parts resolve
\* to a schema
walk_reference(defs, ref) ==
    LET parts == Split(StripChars(ref, {"#", "/"}), "/")
    IN  IF parts[1] # "definitions" \/ defs = <<>> THEN None
        ELSE IF Len(parts) # 2 THEN None
        ELSE LET i == DefIndex(defs, parts[2])
             IN  IF i = 0 \/ IsEmptyDict(defs[i].schema) THEN None
                 ELSE defs[i].schema

\* resolve_reference: the value returned, given the cache
resolve_reference(defs, cache, ref) ==
    IF ref \in DOMAIN cache THEN cache[ref] ELSE walk_reference(defs, ref)

\* a cache that stores the failed resolutions as well
resolve_reference_cache_all(defs, cache, ref) ==
    IF ref \in DOMAIN cache THEN cache
    ELSE [r \in DOMAIN cache \cup {ref} |->
            IF r = ref THEN walk_reference(defs, ref) ELSE cache[r]]

\* resolve_reference: the cache after the call
resolve_reference_cache(defs, cache, ref) ==
    IF ref \in DOMAIN cache THEN cache
    ELSE IF walk_reference(defs, ref) = None THEN cache
    ELSE [r \in DOMAIN cache \cup {ref} |->
            IF r = ref THEN walk_reference(defs, ref) ELSE cache[r]]

is_required_based_on_description(description) ==
    EndsWith(Strip(description), "Required.")

\* the chain of replace calls that sanitizes a description for the doc
\* attribute; the inputs of the model are ASCII, which the final filter keeps
clean_description(description) ==
    LET r1 == Replace(Replace(description, "\n", ""), BQ, "")
        r2 == Replace(r1, SQ, "_")
        r3 == Replace(Replace(r2, "{", ""), "}", "")
        r4 == Replace(r3, DQ, "")
        r5 == Replace(r4, "\\", "_")
        r6 == Replace(r5, ".", "")
    IN  Replace(r6, "//", "_")

\* re.sub(r'\s*\{.*?\}', '', full_name)
RECURSIVE strip_annotations(_)
strip_annotations(s) ==
    LET opens == {i \in 1..Len(s) : At(s, i) = "{"
                     /\ \E j \in (i + 1)..Len(s) :
                          /\ At(s, j) = "}"
                          /\ \A k \in (i + 1)..(j - 1) : At(s, k) # "\n"}
    IN  IF opens = {} THEN s
        ELSE LET i == Min(opens)
                 j == Min({k \in (i + 1)..Len(s) : At(s, k) = "}"})
                 \* the \s* before the brace: the run of blanks that ends at i-1
                 B == {b \in 1..i : \A k \in b..(i - 1) : At(s, k) \in SpaceSet}
                 b == Min(B)
             IN  SubSeq(s, 1, b - 1) \o strip_annotations(From(s, j + 1))

(***************************************************************************)
(* Matchers for the regular expressions of extract_values and of           *)
(* patterns_process_enum_values_default.  The inputs of the model hold no  *)
(* backslash, so the optional \\? of the patterns matches the empty string.*)
(***************************************************************************)
QuoteSet == {DQ, SQ}
AlphaListSet == LetterSet \cup SpaceSet \cup {","}

\* a literal of a pattern at position i; the character ? of pat stands for the
\* pattern's unescaped dot (any character but a newline) and the character ~
\* for the pattern's \s; ic: re.IGNORECASE
MatchAt(s, i, pat, ic) ==
    /\ i >= 1
    /\ i + Len(pat) - 1 <= Len(s)
    /\ \A k \in 1..Len(pat) :
         LET c == At(s, i + k - 1)
             q == At(pat, k)
         IN  IF q = "?" THEN c # "\n"
             ELSE IF q = "~" THEN c \in SpaceSet
             ELSE IF ic THEN LowerChar(c) = LowerChar(q)
             ELSE c = q

\* \b at the gap before position i
WordBoundary(s, i) == (At(s, i - 1) \in WordSet) # (At(s, i) \in WordSet)

\* findall of r'\\?["\'](.*?)\\?["\']'
RECURSIVE FindAllQuoted(_, _)
FindAllQuoted(s, from) ==
    LET Q == {i \in from..Len(s) : At(s, i) \in QuoteSet}
    IN  IF Q = {} THEN <<>>
        ELSE LET i == Min(Q)
                 K == {k \in (i + 1)..Len(s) : At(s, k) \in QuoteSet}
             IN  IF K = {} THEN <<>>
                 ELSE LET k == Min(K)
                      IN  IF \E n \in (i + 1)..(k - 1) : At(s, n) = "\n"
                          THEN FindAllQuoted(s, i + 1)
                          ELSE <<SubSeq(s, i + 1, k - 1)>> \o FindAllQuoted(s, k + 1)

\* findall of r'\b(L1|L2|...)\b' for a sequence of literals
RECURSIVE FindAllWords(_, _, _)
FindAllWords(s, lits, from) ==
    LET Hit(i, n) == /\ StartsAt(s, i, lits[n])
                     /\ WordBoundary(s, i)
                     /\ WordBoundary(s, i + Len(lits[n]))
        P == {i \in from..Len(s) : \E n \in 1..Len(lits) : Hit(i, n)}
    IN  IF P = {} THEN <<>>
        ELSE LET i == Min(P)
                 n == Min({m \in 1..Len(lits) : Hit(i, m)})
             IN  <<lits[n]>> \o FindAllWords(s, lits, i + Len(lits[n]))

\* findall of r'(?<=PREFIX)([a-zA-Z\s,]+)(?=TERM)'; term "" is no lookahead
RECURSIVE FindAllLists(_, _, _, _, _)
FindAllLists(s, prefix, ic, term, from) ==
    LET Hit(i) == /\ MatchAt(s, i - Len(prefix), prefix, ic)
                  /\ RunEnd(s, i, AlphaListSet) > i
                  /\ term # "" => At(s, RunEnd(s, i, AlphaListSet)) = term
        P == {i \in from..Len(s) : Hit(i)}
    IN  IF P = {} THEN <<>>
        ELSE LET i == Min(P)
                 j == RunEnd(s, i, AlphaListSet)
             IN  <<SubSeq(s, i, j - 1)>> \o FindAllLists(s, prefix, ic, term, j)

\* findall of r'(?<=PREFIX)[\s\S]*?(?=\.)' and, with req, of
\* r'(?<=PREFIX)[\s\S]*?(?=\.|\s+Required)'
RECURSIVE FindAllUntilDot(_, _, _, _, _)
FindAllUntilDot(s, prefix, ic, req, from) ==
    LET Stop(j) == \/ At(s, j) = "."
                   \/ /\ req
                      /\ At(s, j) \in SpaceSet
                      /\ MatchAt(s, RunEnd(s, j, SpaceSet), "Required", ic)
        P == {i \in from..(Len(s) + 1) :
                /\ MatchAt(s, i - Len(prefix), prefix, ic)
                /\ \E j \in i..Len(s) : Stop(j)}
    IN  IF P = {} THEN <<>>
        ELSE LET i == Min(P)
                 j == Min({k \in i..Len(s) : Stop(k)})
             IN  <<SubSeq(s, i, j - 1)>>
                 \o FindAllUntilDot(s, prefix, ic, req, IF j = i THEN i + 1 ELSE j)

\* findall of r'-\s*[\'"]?([a-zA-Z/.\s]+[a-zA-Z])[\'"]?\s*:' (re.IGNORECASE)
RECURSIVE FindAllHyphenKeys(_, _)
FindAllHyphenKeys(s, from) ==
    LET C == LetterSet \cup SpaceSet \cup {"/", "."}
        \* the group starts at g, ends (inclusive) at e
        Tail2(e) == LET a == IF At(s, e + 1) \in QuoteSet THEN e + 2 ELSE e + 1
                    IN  RunEnd(s, a, SpaceSet)
        Ends(g) == {e \in (g + 1)..(RunEnd(s, g, C) - 1) :
                      At(s, e) \in LetterSet /\ At(s, Tail2(e)) = ":"}
        Start(i) == LET a == RunEnd(s, i + 1, SpaceSet)
                    IN  IF At(s, a) \in QuoteSet THEN a + 1 ELSE a
        \* without the optional quote taken: the group may start at the blanks
        Starts(i) == {Start(i)} \cup {g \in (i + 1)..RunEnd(s, i + 1, SpaceSet) : TRUE}
        Hit(i) == At(s, i) = "-" /\ \E g \in Starts(i) : Ends(g) # {}
        P == {i \in from..Len(s) : Hit(i)}
    IN  IF P = {} THEN <<>>
        ELSE LET i == Min(P)
                 g == IF Ends(Start(i)) # {} THEN Start(i)
                      ELSE Max({h \in Starts(i) : Ends(h) # {}})
                 e == Max(Ends(g))
             IN  <<SubSeq(s, g, e)>> \o FindAllHyphenKeys(s, Tail2(e) + 1)

\* findall of r'\b(UDP.*?SCTP)\b'
RECURSIVE FindAllUdpSctp(_, _)
FindAllUdpSctp(s, from) ==
    LET EndsOf(i) == {j \in (i + 3)..Len(s) :
                        /\ StartsAt(s, j, "SCTP")
                        /\ WordBoundary(s, j + 4)
                        /\ \A k \in i..j : At(s, k) # "\n"}
        P == {i \in from..Len(s) :
                StartsAt(s, i, "UDP") /\ WordBoundary(s, i) /\ EndsOf(i) # {}}
    IN  IF P = {} THEN <<>>
        ELSE LET i == Min(P)
                 j == Min(EndsOf(i))
             IN  <<SubSeq(s, i, j + 3)>> \o FindAllUdpSctp(s, j + 4)

\* findall of r'\n\s*-\s+(\w+)\s*\n'
RECURSIVE FindAllBullets(_, _)
FindAllBullets(s, from) ==
    LET Dash(i) == RunEnd(s, i + 1, SpaceSet)
        WordAt(i) == RunEnd(s, Dash(i) + 1, SpaceSet)
        WordEnd(i) == RunEnd(s, WordAt(i), WordSet)
        \* \s*\n after the word: some newline inside the run of blanks
        Hit(i) == /\ At(s, i) = "\n"
                  /\ At(s, Dash(i)) = "-"
                  /\ WordAt(i) > Dash(i) + 1
                  /\ WordEnd(i) > WordAt(i)
                  /\ \E n \in WordEnd(i)..(RunEnd(s, WordEnd(i), SpaceSet) - 1) :
                        At(s, n) = "\n"
        P == {i \in from..Len(s) : Hit(i)}
    IN  IF P = {} THEN <<>>
        ELSE LET i == Min(P)
                 n == Max({m \in WordEnd(i)..(RunEnd(s, WordEnd(i), SpaceSet) - 1) :
                             At(s, m) = "\n"})
             IN  <<SubSeq(s, WordAt(i), WordEnd(i) - 1)>> \o FindAllBullets(s, n + 1)

\* one match of r',\s*|\s+or\s+|\sor|or\s|\s+and\s+|and\s' at position i:
\* the index after the match, 0 when there is none
SepEnd(s, i) ==
    LET c == At(s, i)
        r == RunEnd(s, i, SpaceSet)
    IN  IF c = "," THEN RunEnd(s, i + 1, SpaceSet)
        ELSE IF c \in SpaceSet /\ StartsAt(s, r, "or") /\ At(s, r + 2) \in SpaceSet
             THEN RunEnd(s, r + 2, SpaceSet)
        ELSE IF c \in SpaceSet /\ StartsAt(s, i + 1, "or") THEN i + 3
        ELSE IF StartsAt(s, i, "or") /\ At(s, i + 2) \in SpaceSet THEN i + 3
        ELSE IF c \in SpaceSet /\ StartsAt(s, r, "and") /\ At(s, r + 3) \in SpaceSet
             THEN RunEnd(s, r + 3, SpaceSet)
        ELSE IF StartsAt(s, i, "and") /\ At(s, i + 3) \in SpaceSet THEN i + 4
        ELSE 0

\* re.split of that pattern
RECURSIVE SplitValues(_)
SplitValues(s) ==
    LET P == {i \in 1..Len(s) : SepEnd(s, i) # 0}
    IN  IF P = {} THEN <<s>>
        ELSE LET i == Min(P)
             IN  <<SubSeq(s, 1, i - 1)>> \o SplitValues(From(s, SepEnd(s, i)))

RECURSIVE Flatten(_)
Flatten(qq) == IF qq = <<>> THEN <<>> ELSE Head(qq) \o Flatten(Tail(qq))

(***************************************************************************)
(* patterns_process_enum_values_default                                    *)
(***************************************************************************)
patterns_default_values ==
    <<"defaults to", ". implicitly inferred to be",
      "the currently supported reasons are", ". default is">>

DefaultCharSet == WordSet \cup SpaceSet \cup {".", "-", DQ, SQ}

\* findall of r'(?<=defaults to\s)(["\']?[\w\s\.\-"\']+?)(?=\.)' (re.IGNORECASE)
RECURSIVE FindAllDefaultsLazy(_, _)
FindAllDefaultsLazy(s, from) ==
    LET \* the shortest group from i that is followed by a dot
        \* (with the optional quote taken first, given back when that fails)
        EndOf(i) ==
            LET Dots(a) == {j \in a..RunEnd(s, i, DefaultCharSet) : At(s, j) = "."}
            IN  IF At(s, i) \in QuoteSet /\ Dots(i + 2) # {} THEN Min(Dots(i + 2))
                ELSE IF Dots(i + 1) # {} THEN Min(Dots(i + 1))
                ELSE 0
        P == {i \in from..Len(s) :
                /\ MatchAt(s, i - 12, "defaults to", TRUE)
                /\ At(s, i - 1) \in SpaceSet
                /\ EndOf(i) # 0}
    IN  IF P = {} THEN <<>>
        ELSE LET i == Min(P)
             IN  <<SubSeq(s, i, EndOf(i) - 1)>> \o FindAllDefaultsLazy(s, EndOf(i))

\* findall of r'(?<=Defaults to\s)(["\']?[\w\s\.\-"\']+["\']?)'
RECURSIVE FindAllDefaultsGreedy(_, _)
FindAllDefaultsGreedy(s, from) ==
    LET P == {i \in from..Len(s) :
                /\ MatchAt(s, i - 12, "Defaults to", FALSE)
                /\ At(s, i - 1) \in SpaceSet
                /\ At(s, i) \in DefaultCharSet}
    IN  IF P = {} THEN <<>>
        ELSE LET i == Min(P)
                 j == RunEnd(s, i, DefaultCharSet)
             IN  <<SubSeq(s, i, j - 1)>> \o FindAllDefaultsGreedy(s, j)

\* findall of r'PREFIX\s["\'](.*?)["\']' and, with dot, of
\* r'PREFIX\s["\'](.*?)["\'](?=\.)' (both re.IGNORECASE)
RECURSIVE FindAllQuotedAfter(_, _, _, _)
FindAllQuotedAfter(s, prefix, dot, from) ==
    LET c(i) == i + Len(prefix) + 2
        Close(i) == {k \in c(i)..Len(s) :
                        /\ At(s, k) \in QuoteSet
                        /\ dot => At(s, k + 1) = "."
                        /\ \A n \in c(i)..(k - 1) : At(s, n) # "\n"}
        P == {i \in from..Len(s) :
                /\ MatchAt(s, i, prefix, TRUE)
                /\ At(s, i + Len(prefix)) \in SpaceSet
                /\ At(s, i + Len(prefix) + 1) \in QuoteSet
                /\ Close(i) # {}}
    IN  IF P = {} THEN <<>>
        ELSE LET i == Min(P)
                 k == Min(Close(i))
             IN  <<SubSeq(s, c(i), k - 1)>> \o FindAllQuotedAfter(s, prefix, dot, k + 1)

\* findall of r'\. Default is\s["\']?(.*?)["\']?(?=\.)' (re.IGNORECASE)
RECURSIVE FindAllDefaultIs(_, _)
FindAllDefaultIs(s, from) ==
    LET pre == ". Default is"
        \* after the optional opening quote
        c(i) == IF At(s, i + 13) \in QuoteSet THEN i + 14 ELSE i + 13
        Stop(g, k) == /\ \/ At(s, k) = "."
                         \/ At(s, k) \in QuoteSet /\ At(s, k + 1) = "."
                      /\ \A n \in g..(k - 1) : At(s, n) # "\n"
        Ends(g) == {k \in g..Len(s) : Stop(g, k)}
        \* when the quote taken as the opening one leaves no match, it is given back
        G(i) == IF Ends(c(i)) # {} THEN c(i) ELSE i + 13
        P == {i \in from..Len(s) :
                /\ MatchAt(s, i, pre, TRUE)
                /\ At(s, i + 12) \in SpaceSet
                /\ Ends(G(i)) # {}}
    IN  IF P = {} THEN <<>>
        ELSE LET i == Min(P)
                 k == Min(Ends(G(i)))
                 e == IF At(s, k) = "." THEN k ELSE k + 1
             IN  <<SubSeq(s, G(i), k - 1)>> \o FindAllDefaultIs(s, e)

\* the loop body: the value a match leaves in default_value ("" keeps the old one)
DefaultOfMatch(match) ==
    LET first_part == Split(match, ".")[1]
        v0 == Strip(Replace(Replace(Replace(Strip(first_part), DQ, ""), SQ, ""), ".", ""))
        v  == IF v0 = "*" THEN "estrella" ELSE v0
    IN  IF v # "" /\ Len(v) <= 50 THEN v ELSE ""

RECURSIVE LastDefault(_, _)
LastDefault(matches, acc) ==
    IF matches = <<>> THEN acc
    ELSE LET v == DefaultOfMatch(Head(matches))
         IN  LastDefault(Tail(matches), IF v = "" THEN acc ELSE v)

\* the result; "" stands for None (the function never returns an empty string)
patterns_process_enum_values_default(description) ==
    IF ~ \E n \in 1..Len(patterns_default_values) :
            Contains(Lower(description), patterns_default_values[n])
    THEN ""
    ELSE LastDefault(
            FindAllDefaultsLazy(description, 1)
            \o FindAllDefaultsGreedy(description, 1)
            \o FindAllQuotedAfter(description, "Implicitly inferred to be", FALSE, 1)
            \o FindAllQuotedAfter(description, "default to use", TRUE, 1)
            \o FindAllDefaultIs(description, 1), "")

(***************************************************************************)
(* extract_values                                                          *)
(***************************************************************************)
palabras_patrones_minus ==
    <<"values are", "following states", ". must be", "implicitly inferred to be",
      "the currently supported reasons are", ". can be",
      "it can be in any of following states", "valid options are",
      "a value of " \o BQ, "the supported types are", "valid operators are",
      "status of the condition,", "status of the condition.",
      "type of the condition.", "status of the condition (", "node address type",
      "should be one of", "will be one of", "means that requests that",
      "only valid values", "a volume should be", "the metric type is",
      "valid policies are">>

palabras_patrones_may ==
    <<"Supports", "Type of job condition", "Status of the condition for",
      "Type of condition", ". One of", "Host Caching mode", "This may be set to",
      "Supported values:", "completions are tracked. It can be", "Services can be",
      "this API group are">>

\* the matches of value_patterns, pattern after pattern, as findall lists them
value_matches(d) ==
       FindAllQuoted(d, 1)
    \o FindAllHyphenKeys(d, 1)
    \o FindAllUntilDot(d, "Valid values are:", FALSE, FALSE, 1)
    \o FindAllUntilDot(d, "Possible values are:", FALSE, FALSE, 1)
    \o FindAllUntilDot(d, "Allowed values are", TRUE, TRUE, 1)
    \o FindAllUdpSctp(d, 1)
    \o FindAllBullets(d, 1)
    \o FindAllWords(d, <<"Localhost", "RuntimeDefault", "Unconfined">>, 1)
    \o FindAllWords(d, <<"Retain", "Delete", "Recycle">>, 1)
    \o FindAllLists(d, "The currently supported values are~", TRUE, ".", 1)
    \o FindAllLists(d, "Valid operators are~", TRUE, ".", 1)
    \o FindAllWords(d, <<"Gt", "Lt">>, 1)
    \o FindAllLists(d, "Acceptable values are:", FALSE, "(", 1)
    \o FindAllLists(d, "status of the condition, one of~", TRUE, ".", 1)
    \o FindAllLists(d, "Type of job condition,~", FALSE, ".", 1)
    \o FindAllLists(d, "status of the condition? Can be~", FALSE, ".", 1)
    \o FindAllLists(d, "Types include~", FALSE, ".", 1)
    \o FindAllLists(d, "status of the condition (", FALSE, ")", 1)
    \o FindAllLists(d, "Node address type, one of~", FALSE, ".", 1)
    \o FindAllLists(d, "? One of~", FALSE, ".", 1)
    \o FindAllLists(d, "Host Caching mode:~", FALSE, ".", 1)
    \o FindAllLists(d, "Supported values:~", FALSE, ".", 1)
    \o FindAllWords(d, <<"Shared", "Dedicated", "Managed">>, 1)
    \o FindAllLists(d, "a volume should be~", FALSE, ".", 1)
    \o FindAllWords(d, <<"NonIndexed", "Indexed">>, 1)
    \o FindAllLists(d, "the metric type is~", FALSE, "", 1)
    \o FindAllLists(d, "Valid policies are~", FALSE, ".", 1)

\* the normalisation of one split value
normalize_value(v0) ==
    LET v1 == Replace(Strip(v0), "*", "estrella")
        v2 == Replace(Replace(Replace(v1, DQ, ""), SQ, ""), BQ, "")
    IN  Replace(Replace(v2, " ", "_"), "/", "_")

\* the filter of the loop body
value_kept(v) ==
    /\ v # ""
    /\ Len(v) <= 24
    /\ ~ \E c \in {".", "{", "}", "[", "]", ";", ":", "prefixed_keys"} : Contains(v, c)
    /\ ~ (Len(v) >= 20 /\ Contains(v, "_"))

\* the matches split at the separators
split_values(matches) ==
    Flatten([i \in 1..Len(matches) |-> SplitValues(matches[i])])

normalized_values(parts) == [i \in 1..Len(parts) |-> normalize_value(parts[i])]

\* the value equal to the default carries the mark
marked_values(kept, default_value) ==
    [i \in 1..Len(kept) |->
        IF default_value # "" /\ kept[i] = default_value
        THEN kept[i] \o " {default}" ELSE kept[i]]

\* the list `values` before it is made a set
value_list(description) ==
    marked_values(SelectSeq(normalized_values(split_values(value_matches(description))),
                            value_kept),
                  patterns_process_enum_values_default(description))

case_not_none == {"NodePort", "ClusterIP {default}", "None", "LoadBalancer", "ExternalName"}
case_not_policies == {"IfHealthyBudget", "AlwaysAllow", "Ready", "True", "Running"}

\* the end of extract_values without the test of a single value
checked_values_single(values) ==
    IF values = {} THEN {}
    ELSE IF case_not_none = values THEN values \ {"None"}
    ELSE IF case_not_policies = values
    THEN case_not_policies \ {"Ready", "True", "Running"}
    ELSE values

\* the end of extract_values: the special cases of the set of values
checked_values(values) ==
    IF values = {} \/ Cardinality(values) = 1 THEN {}
    ELSE IF case_not_none = values THEN values \ {"None"}
    ELSE IF case_not_policies = values
    THEN case_not_policies \ {"Ready", "True", "Running"}
    ELSE values

\* the result: a set of strings; {} stands for None
extract_values(description) ==
    IF /\ ~ \E n \in 1..Len(palabras_patrones_minus) :
              Contains(Lower(description), palabras_patrones_minus[n])
       /\ ~ \E n \in 1..Len(palabras_patrones_may) :
              Contains(description, palabras_patrones_may[n])
    THEN {}
    ELSE checked_values(Range(value_list(description)))

(***************************************************************************)
(* Categorization of descriptions.                                         *)
(***************************************************************************)
\* pattern.search(s) for an alternation of literals
SearchAny(s, pats, ic) ==
    \E n \in 1..Len(pats) : \E i \in 1..Len(s) : MatchAt(s, i, pats[n], ic)

\* keyword in s, for any keyword of the list
AnyIn(s, keywords) == \E n \in 1..Len(keywords) : Contains(s, keywords[n])

\* self.patterns['restrictions'] (re.IGNORECASE); ? is the unescaped dot
restrictions_pattern ==
    <<"If the operator is", "template?spec?restartPolicy", "conditions may not be",
      "Details about a waiting", "TCPSocket is NOT", "must be between",
      "Note that this field cannot be set when", "valid port number",
      "must be in the range", "must be greater than",
      "are mutually exclusive properties", "Must be set if type is",
      "field MUST be empty if", "must be non-empty if and only if", "only if type",
      ". Required when", "required when scope", ". At least one of",
      "a least one of", "Exactly one of", "resource access request",
      "datasetUUID is", "succeededIndexes specifies",
      "Represents the requirement on the container",
      "ResourceClaim object in the same namespace as this pod",
      "indicates which one of", "may be non-empty only if", "Minimum value is",
      "Value must be non-negative", "minimum valid value for", "in the range 1-">>

\* r'^$' searched in s: the pattern without the word boundary
empty_line(s) == s = "" \/ s = "\n"

\* self.patterns['values'] and ['dependencies']: r'^\b$' searched in s
empty_pattern(s) == (s = "" \/ s = "\n") /\ WordBoundary(s, 1)

\* self.patterns.items(), in the order of the dict: the category a description
\* falls in, "" when no pattern is found
category_of(description) ==
    IF empty_pattern(description) THEN "values"
    ELSE IF SearchAny(description, restrictions_pattern, TRUE) THEN "restrictions"
    ELSE IF empty_pattern(description) THEN "dependencies"
    ELSE ""

\* is_valid_description(feature_name, description): the value returned
is_valid_description(seen, feature_name, description) ==
    IF Len(description) < 10 THEN FALSE
    ELSE (feature_name \o ":" \o description) \notin seen

\* is_valid_description: self.seen_descriptions after the call
is_valid_description_seen(seen, feature_name, description) ==
    IF Len(description) < 10 THEN seen
    ELSE seen \cup {feature_name \o ":" \o description}

\* categorize_description: the name stored in the record
feature_name_descriptions(feature_name) ==
    IF Contains(feature_name, "cardinality") THEN Split(feature_name, " cardinality")[1]
    ELSE IF Contains(feature_name, "{") THEN Split(feature_name, " {")[1]
    ELSE feature_name

description_entry(description, feature_name, type_data) ==
    [feature_name |-> feature_name_descriptions(feature_name),
     description |-> description,
     type_data |-> IF type_data = "" THEN "Boolean" ELSE type_data]

\* categorize_description(description, feature_name, type_data): the value
\* returned; the call of is_valid_description passes (description, feature_name)
\* for the parameters (feature_name, description)
categorize_description(seen, description, feature_name, type_data) ==
    /\ is_valid_description(seen, description, feature_name)
    /\ category_of(description) # ""

\* categorize_description: self.seen_descriptions after the call
categorize_description_seen(seen, description, feature_name) ==
    is_valid_description_seen(seen, description, feature_name)

\* categorize_description: self.descriptions after the call
categorize_description_descriptions(descs, seen, description, feature_name, type_data) ==
    IF categorize_description(seen, description, feature_name, type_data)
    THEN [descs EXCEPT ![category_of(description)] =
             Append(@, description_entry(description, feature_name, type_data))]
    ELSE descs

(***************************************************************************)
(* Features: the dictionaries built by parse_properties and process_oneOf. *)
(***************************************************************************)
Feature(name, type, description, sub_features, type_data) ==
    [name |-> name, type |-> type, description |-> description,
     sub_features |-> sub_features, type_data |-> type_data]

RECURSIVE oneOf_sub_features(_, _)
oneOf_sub_features(oneOf, full_name) ==
    IF oneOf = <<>> THEN <<>>
    ELSE LET option == Head(oneOf)
             option_type_data == Capitalize(option.type)
             n0 == Replace(full_name, " cardinality [1..*]", "")
             sanitized == IF Contains(n0, " {default ") THEN strip_annotations(n0) ELSE n0
             aux == "Sub-feature added of type " \o option_type_data
             sub == Feature(sanitized \o "_as" \o option_type_data
                               \o " {doc '" \o aux \o "'}",
                            "alternative", aux, <<>>,
                            sanitize_type_data(option_type_data))
         IN  (IF option.hasType THEN <<sub>> ELSE <<>>)
             \o oneOf_sub_features(Tail(oneOf), full_name)

process_oneOf(oneOf, full_name, type_feature) ==
    Feature(full_name, type_feature, "Feature based on oneOf in " \o full_name,
            oneOf_sub_features(oneOf, full_name), "Boolean")

\* an option of a oneOf list: {"type": t} or a dict without the key
Option(t) == [hasType |-> TRUE, type |-> t]
OptionNoType == [hasType |-> FALSE, type |-> ""]

(***************************************************************************)
(* process_enum_defaultInte                                                *)
(***************************************************************************)
patterns_default_values_numbers ==
    <<"defaults to", "default value is", "default to", "default false",
      "Default is false", "is " \o DQ \o "false", "is " \o DQ \o "true">>

\* search of r'(?<=PREFIX\s)(\d+)(?=\D|$)': the group, "" when not found
SearchDigitsAfter(s, prefix, ic) ==
    LET P == {i \in 1..Len(s) :
                /\ MatchAt(s, i - Len(prefix) - 1, prefix \o "~", ic)
                /\ At(s, i) \in DigitChars}
    IN  IF P = {} THEN ""
        ELSE SubSeq(s, Min(P), RunEnd(s, Min(P), DigitChars) - 1)

\* search of r'(?<=Default to\s)([\w\s\.])(?=\.)': the group, "" when not found
SearchCharAfter(s) ==
    LET P == {i \in 1..Len(s) :
                /\ MatchAt(s, i - 11, "Default to~", FALSE)
                /\ At(s, i) \in WordSet \cup SpaceSet \cup {"."}
                /\ At(s, i + 1) = "."}
    IN  IF P = {} THEN "" ELSE At(s, Min(P))

\* search of r'Default is\s+\\?"(true|false)\\?"': the group, "" when not found
SearchDefaultIsBool(s) ==
    LET Hit(i, w) == /\ MatchAt(s, i, "Default is~", FALSE)
                     /\ StartsAt(s, RunEnd(s, i + 10, SpaceSet), DQ \o w \o DQ)
        P == {i \in 1..Len(s) : Hit(i, "true") \/ Hit(i, "false")}
    IN  IF P = {} THEN ""
        ELSE IF Hit(Min(P), "true") THEN "true" ELSE "false"

\* the {default ...} annotation the detected default gives, "" when none
\* the last of the matches that is not empty
last_match(m) ==
    LET M == {n \in 1..Len(m) : m[n] # ""}
    IN  IF M = {} THEN "" ELSE m[Max(M)]

default_integer(description) ==
    last_match(<<SearchDigitsAfter(description, "Defaults to", TRUE),
                 SearchDigitsAfter(description, "Default value is", TRUE),
                 SearchDigitsAfter(description, "Default to", FALSE),
                 SearchCharAfter(description)>>)

default_text(description, lower, bool, int) ==
    LET is_false == \/ Contains(description, "Default to false")
                    \/ Contains(lower, "defaults to false")
                    \/ Contains(lower, "default false")
                    \/ Contains(description, "Default is false")
        is_true == \/ Contains(description, "Default to true")
                   \/ Contains(lower, "defaults to true")
    IN  IF is_false
        THEN IF Contains(lower, "defaults to false") /\ Contains(lower, "deprecated.")
             THEN "default false, deprecated" ELSE "default false"
        ELSE IF is_true THEN "default true"
        ELSE IF bool # "" THEN "default " \o bool
        ELSE IF int = "0644" THEN "default 644"
        ELSE IF int # "" THEN "default " \o int
        ELSE ""

default_annotation(description) ==
    default_text(description, Lower(description), SearchDefaultIsBool(description),
                 default_integer(description))

enum_defaultInte(property, full_name, lower, annotation, cleaned) ==
    IF property.enum # <<>>
    THEN <<full_name \o " {default '" \o property.enum[1] \o "', doc '" \o cleaned \o "'}",
           TRUE>>
    ELSE IF AnyIn(lower, patterns_default_values_numbers) /\ annotation # ""
         THEN <<full_name \o " {" \o annotation \o ", doc '" \o cleaned \o "'}", TRUE>>
         ELSE <<full_name, FALSE>>

\* process_enum_defaultInte(property, full_name, description): <<name, default_bool>>
process_enum_defaultInte(property, full_name, description) ==
    enum_defaultInte(property, full_name, Lower(description),
                     default_annotation(description), clean_description(description))

(***************************************************************************)
(* update_type_data                                                        *)
(***************************************************************************)
boolean_keywords ==
    <<"AppArmorProfile_localhostProfile", "appArmorProfile_localhostProfile",
      "seccompProfile_localhostProfile", "SeccompProfile_localhostProfile",
      "IngressClassList_items_spec_parameters_namespace",
      "IngressClassParametersReference_namespace",
      "IngressClassSpec_parameters_namespace",
      "IngressClass_spec_parameters_namespace", "_tolerations_value",
      "_Toleration_value", "_clientConfig_url", "_WebhookClientConfig_url",
      "_succeededIndexes", "_succeededCount", "source_resourceClaimName",
      "_ClaimSource_resourceClaimName", "_resourceClaimTemplateName",
      "_datasetUUID", "_datasetName">>

\* the literals of self.boolean_keywords_regex: r'.*X$'
boolean_keywords_regex == <<"_paramRef_name", "_ParamRef_name">>

special_features_config ==
    <<"_template_spec_", "_Pod_spec_", "_PodList_items_spec_", "_core_v1_PodSpec_",
      "_PodTemplateSpec_spec_", "_v1_PodSecurityContext_",
      "_v1_Container_securityContext_", "_v1_EphemeralContainer_securityContext_",
      "_v1_SecurityContext_">>

\* re.search(r'.*X$', full_name) for some X of boolean_keywords_regex
SearchKeywordRegex(full_name) ==
    \E n \in 1..Len(boolean_keywords_regex) :
        \/ EndsWith(full_name, boolean_keywords_regex[n])
        \/ EndsWith(full_name, boolean_keywords_regex[n] \o "\n")

\* update_type_data: the type and the flag returned, and
\* self.feature_aux_original_type after the call
update_type_data(full_name, feature_type_data, description) ==
    LET keep == EndsWith(full_name, "nameStr") \/ EndsWith(full_name, "valueInt")
        c1 == AnyIn(full_name, boolean_keywords) /\ ~keep
        t1 == IF c1 THEN "Boolean" ELSE feature_type_data
        x1 == IF c1 THEN feature_type_data ELSE ""
        c2 == /\ AnyIn(full_name, special_features_config)
              /\ Contains(description, "Note that this field cannot be set when")
              /\ ~keep
        t2 == IF c2 THEN "Boolean" ELSE t1
        x2 == IF c2 THEN t1 ELSE x1
        a2 == c1 \/ (c2 /\ x2 # "boolean" /\ x2 # "Boolean" /\ x2 # "")
        c3 == SearchKeywordRegex(full_name) /\ ~keep
    IN  [type_data |-> IF c3 THEN "Boolean" ELSE t2,
         abstract_bool |-> a2 \/ c3,
         aux |-> IF c3 THEN t2 ELSE x2]

(***************************************************************************)
(* The definitions documents of the model.  A document is the sequence of  *)
(* its definitions, <<name, schema>> in declared order: A takes up to      *)
(* MaxProps properties of PoolA, B and C are one of their variants.        *)
(***************************************************************************)
Ptr(name) == "#/definitions/" \o name

RefProp(name, type, description, target) ==
    [Prop(name, type, description) EXCEPT !.ref = Ptr(target)]

ItemsRefProp(name, description, target) ==
    [Prop(name, "array", description) EXCEPT
        !.hasItems = TRUE, !.items = [ref |-> Ptr(target), type |-> ""]]

ItemsTypeProp(name, description, type) ==
    [Prop(name, "array", description) EXCEPT
        !.hasItems = TRUE, !.items = [ref |-> "", type |-> type]]

AddlRefProp(name, description, target) ==
    [Prop(name, "object", description) EXCEPT
        !.hasAddl = TRUE,
        !.addl = [ref |-> Ptr(target), type |-> "", hasItems |-> FALSE, itemsType |-> ""]]

AddlTypeProp(name, description, type) ==
    [Prop(name, "object", description) EXCEPT
        !.hasAddl = TRUE,
        !.addl = [ref |-> "", type |-> type, hasItems |-> FALSE, itemsType |-> ""]]

NestedProp(name, description, properties, required) ==
    [Prop(name, "object", description) EXCEPT
        !.hasProperties = TRUE, !.properties = properties, !.required = required]

DescPolicy ==
    "Policy of the hook. Possible values are: " \o DQ \o "Fail" \o DQ \o " or "
        \o DQ \o "Ignore" \o DQ \o ". Defaults to Fail."
DescMinimum == "Number of replicas. Minimum value is 1."
DescLabels == "Map of string keys and values."
DescList == "List of rules. Required."
DescRef == "Reference to the target object."
DescOld == "DEPRECATED: use the other field."

PoolA ==
    <<ItemsRefProp("x-y", DescList, "B"),
      ItemsRefProp("x.y", "", "B"),
      RefProp("target", "", DescRef, "B"),
      RefProp("missing", "", "", "Missing"),
      RefProp("self", "", "", "A"),
      AddlRefProp("extra", "", "B"),
      Prop("failurePolicy", "string", DescPolicy),
      ItemsTypeProp("args", "", "string")>>

VariantsB ==
    <<Schema(<<Prop("minReplicas", "integer", DescMinimum)>>, <<>>, "object", ""),
      Schema(<<RefProp("back", "", "", "A"), Prop("c", "string", "")>>,
             <<"c">>, "object", DescRef),
      Schema(<<ItemsRefProp("rec", "", "B"), RefProp("leaf", "", DescOld, "C")>>,
             <<>>, "object", ""),
      Schema(<<NestedProp("n", "", <<Prop("k", "boolean", "")>>, <<"k">>),
               AddlRefProp("again", "", "B"),
               AddlTypeProp("labels", DescLabels, "string")>>, <<>>, "object", ""),
      SimpleSchema("string", DescRef),
      Schema(<<NestedProp("seccompProfile", "",
                          <<Prop("localhostProfile", "string", DescOld),
                            Prop("level", "string", "")>>, <<>>),
               RefProp("backReference", "", DescMinimum, "B")>>, <<>>, "object", "")>>

VariantsC ==
    <<SimpleSchema("integer", ""),
      OneOfSchema(<<Option("string"), Option("integer")>>),
      OneOfSchema(<<Option("array"), Option("number")>>)>>

\* the selections of at most n entries of a pool, in the order of the pool
IndexSeqs(pool, n) ==
    {q \in UNION {[1..k -> 1..Len(pool)] : k \in 0..n} :
        \A i, j \in 1..Len(q) : i < j => q[i] < q[j]}

SchemaA(q) ==
    Schema([i \in 1..Len(q) |-> PoolA[q[i]]], <<>>, "object", "")

Document(q, b, c) ==
    <<[name |-> "A", schema |-> SchemaA(q)],
      [name |-> "B", schema |-> VariantsB[b]],
      [name |-> "C", schema |-> VariantsC[c]]>>

\* definition C is varied where definition B points to it
VariantsFor(b) == IF b = 3 THEN 1..Len(VariantsC) ELSE {1}

Documents ==
    {Document(q, bc[1], bc[2]) :
        q \in IndexSeqs(PoolA, MaxProps),
        bc \in {x \in (1..Len(VariantsB)) \X (1..Len(VariantsC)) : x[2] \in VariantsFor(x[1])}}

(***************************************************************************)
(* Documents whose descriptions carry the phrases the constraint synthesis *)
(* of analisisScript01.py looks for.  categorize_description files a        *)
(* description under 'restrictions' with the qualified name of its          *)
(* property and the type of its feature.                                   *)
(***************************************************************************)
minimum_text(n) == "Minimum value is " \o ToString(n) \o "."

between_text(a, b) ==
    "Value must be between " \o ToString(a) \o " and " \o ToString(b) \o "."

less_equal_text(n) ==
    "Value must be non-negative and less than or equal to " \o ToString(n) \o "."

port_text == "Must be a valid port number."

port_upto_text(n) ==
    "Must be a valid port number, less than or equal to " \o ToString(n) \o "."

port_range_text(a, b) ==
    "Must be a valid port number, " \o ToString(a) \o " < x < " \o ToString(b) \o "."

greater_minimum_text(a, n) ==
    "Value must be greater than " \o ToString(a) \o ". " \o minimum_text(n)

required_when_text(P, V) ==
    "ClientConfig of the hook. Required when " \o P \o " is set to "
        \o DQ \o V \o DQ \o "."

required_when_ticked_text(P, V) ==
    "ClientConfig of the hook. Required when " \o BQ \o P \o BQ \o " is set to "
        \o BQ \o DQ \o V \o DQ \o BQ \o ", and must be unset otherwise."

required_when_unset_text(P, V, W) ==
    "ClientConfig of the hook. Required when " \o P \o " is set to "
        \o DQ \o V \o DQ \o ", must be unset when " \o P \o " is set to "
        \o DQ \o W \o DQ \o "."

range_required_text(P, V) ==
    "Number must be in the range 1 to 65535. " \o required_when_ticked_text(P, V)

DescRestartPolicy == "template.spec.restartPolicy must be set"
DescExactlyOne ==
    "Exactly one of " \o BQ \o "url" \o BQ \o " or " \o BQ \o "service" \o BQ
        \o " must be specified."
DescWhichOne == "indicates which one of the kinds"
DescUnbounded == "Minimum value is unbounded."
DescLineBreak == "\n"

only_allowed_text(value) ==
    "The only allowed template.spec.restartPolicy value is " \o value \o "."

allowed_values_text(values) ==
    "The allowed template.spec.restartPolicy values are " \o values \o "."

Quoted(v) == DQ \o v \o DQ

DescPhase == "Phase of the claim. Possible values are: " \o Quoted("Bound") \o "."
DescSupports == "Supports nothing else."

\* the description of the type of a service; default_value is "" when it
\* names no default
service_type_text(default_value) ==
    "Type of the service. Valid options are " \o Quoted("ExternalName") \o ", "
        \o Quoted("ClusterIP") \o ", " \o Quoted("NodePort") \o ", "
        \o Quoted("LoadBalancer") \o " and " \o Quoted("None") \o "."
        \o (IF default_value = "" THEN "" ELSE " Defaults to " \o default_value \o ".")

\* the numbers written in the descriptions
Nums == {0, 10, 1024}

PoolR ==
    <<RefProp("restartPolicy", "", DescRestartPolicy, "C"),
      RefProp("clientConfig", "", required_when_text("strategy", "Webhook"), "C"),
      RefProp("clientConfig", "", required_when_ticked_text("strategy", "Webhook"), "C"),
      RefProp("clientConfig", "", required_when_unset_text("scope", "Namespace", "Cluster"),
              "C"),
      RefProp("clientConfig", "", range_required_text("strategy", "Webhook"), "C"),
      RefProp("clientConfig", "", DescExactlyOne, "C"),
      RefProp("clientConfig", "", between_text(0, 100), "C"),
      Prop("portNumber", "integer", minimum_text(1024)),
      Prop("portNumber", "integer", minimum_text(0)),
      Prop("portNumber", "integer", between_text(0, 100)),
      Prop("portNumber", "integer", less_equal_text(10)),
      Prop("portNumber", "integer", port_text),
      Prop("portNumber", "integer", port_upto_text(10)),
      Prop("portNumber", "integer", port_range_text(0, 1024)),
      Prop("portNumber", "integer", greater_minimum_text(0, 10)),
      Prop("kindSelector", "string", DescWhichOne),
      Prop("port", "integer", port_text),
      Prop("portNumber", "integer", DescUnbounded),
      RefProp("restartPolicy", "", only_allowed_text(Quoted("Always")), "C"),
      RefProp("restartPolicy", "", only_allowed_text("Always"), "C"),
      RefProp("restartPolicy", "", allowed_values_text(Quoted("Never") \o " and "
                                                        \o Quoted("OnFailure")), "C"),
      RefProp("restartPolicy", "", allowed_values_text(Quoted("Never")), "C"),
      Prop("rule-set", "object", DescExactlyOne),
      RefProp("rule.set", "", DescExactlyOne, "C"),
      Prop("lineBreak", "string", DescLineBreak),
      Prop("phase", "string", DescPhase),
      Prop("phase", "string", DescSupports),
      Prop("type", "string", service_type_text("")),
      Prop("type", "string", service_type_text("ClusterIP")),
      Prop("type", "string", service_type_text("NodePort"))>>

\* the type of a service is described in documents of one property
Alone(pool, q) ==
    \A i \in 1..Len(q) : pool[q[i]].name = "type" => Len(q) = 1

\* a JSON object holds a property name once
DistinctNames(pool, q) ==
    \A i, j \in 1..Len(q) : i # j => pool[q[i]].name # pool[q[j]].name

SchemaR(q) ==
    Schema([i \in 1..Len(q) |-> PoolR[q[i]]], <<>>, "object", "")

ConstraintDocument(q) ==
    <<[name |-> "x.y", schema |-> SchemaR(q)],
      [name |-> "C", schema |-> Schema(<<Prop("url", "string", "")>>, <<>>, "object", "")]>>

ConstraintDocuments ==
    {ConstraintDocument(q) :
        q \in {x \in IndexSeqs(PoolR, MaxRecords) : x # <<>> /\ DistinctNames(PoolR, x) /\ Alone(PoolR, x)}}

\* every description of the documents, and the values each one gives:
\* extract_values depends on the description alone
RECURSIVE PropDescriptions(_)
PropDescriptions(props) ==
    IF props = <<>> THEN {}
    ELSE {Head(props).description}
         \cup PropDescriptions(Head(props).properties)
         \cup PropDescriptions(Tail(props))

Descriptions ==
    PropDescriptions(PoolA)
    \cup PropDescriptions(PoolR)
    \cup UNION {PropDescriptions(VariantsB[b].properties) : b \in 1..Len(VariantsB)}

extracted_values_of == [d \in Descriptions |-> extract_values(d)]

(***************************************************************************)
(* parse_properties: the body of the loop over the properties, cut at the  *)
(* recursive calls.                                                        *)
(***************************************************************************)
Last(q) == q[Len(q)]

Leaf(name, type, description, type_data) ==
    Feature(name, type, description, <<>>, type_data)

\* the name the skip test looks up
qualified_name(current_parent, prop) ==
    IF current_parent # "" THEN current_parent \o "_" \o sanitize_name(prop)
    ELSE sanitize_name(prop)

feature_type_of(prop, current_required) ==
    IF prop.name \in Range(current_required)
       \/ is_required_based_on_description(prop.description)
    THEN "mandatory" ELSE "optional"

\* the block that adds or removes the cardinality suffix
with_cardinality(full_name, is_card, description) ==
    LET suffix == IF Contains(description, "unstructured key value map")
                  THEN " cardinality [0..*]" ELSE " cardinality [1..*]"
    IN  IF is_card /\ Contains(full_name, "cardinality")
        THEN Replace(full_name, " cardinality [1..*]", "") \o suffix
        ELSE IF is_card THEN full_name \o suffix
        ELSE Replace(Replace(full_name, " cardinality [1..*]", ""),
                     " cardinality [0..*]", "")

deprecated_description(cleaned_description) ==
    \/ Contains(cleaned_description, "DEPRECATED:")
    \/ Contains(Lower(cleaned_description), "deprecated.")
    \/ Contains(cleaned_description, "This field is deprecated,")
    \/ Contains(cleaned_description, "deprecated field")

type_or_default(prop) == IF prop.type = "" THEN "Boolean" ELSE prop.type

\* the head of the loop body once the name and the type are made: pe is the
\* result of process_enum_defaultInte, n2 the name with its cardinality, u the
\* result of update_type_data, cleaned the description cleaned
head_result(fr, prop, seen, descs, aux, key, pe, n2, u, cleaned) ==
    LET description == prop.description
        has == description # ""
        default_bool == pe[2]
        type1 == IF has THEN u.type_data ELSE sanitize_type_data(type_or_default(prop))
        abstract_bool == IF has THEN u.abstract_bool ELSE fr.abstract_bool
        deprecated == has /\ deprecated_description(cleaned)
        n3 == IF ~has THEN n2
              ELSE IF ~default_bool /\ ~abstract_bool /\ ~deprecated
                   THEN n2 \o " {doc '" \o cleaned \o "'}"
              ELSE IF deprecated /\ ~default_bool
                   THEN n2 \o " {deprecated, doc '" \o cleaned \o "'}"
              ELSE n2
    IN  [key |-> key,
         description |-> description,
         feature_type |-> feature_type_of(prop, fr.required),
         feature |-> Feature(IF ~abstract_bool THEN n3
                             ELSE n3 \o " {abstract, doc '" \o cleaned \o "'}",
                             feature_type_of(prop, fr.required), description, <<>>,
                             IF type1 = "Boolean" THEN "" ELSE type1),
         full_name |-> strip_annotations(n3),
         abstract_bool |-> abstract_bool,
         cleaned_description |-> cleaned,
         is_cardinality |-> sanitize_type_data_cardinality(type_or_default(prop), FALSE),
         is_deprecated |-> deprecated /\ default_bool,
         aux |-> IF has THEN u.aux ELSE aux,
         seen |-> IF has THEN categorize_description_seen(seen, description, n2)
                  ELSE seen,
         descs |-> IF has
                   THEN categorize_description_descriptions(descs, seen, description,
                                                            n2, type1)
                   ELSE descs]

head_updated(fr, prop, seen, descs, aux, key, pe, n2) ==
    head_result(fr, prop, seen, descs, aux, key, pe, n2,
                update_type_data(n2, sanitize_type_data(type_or_default(prop)),
                                 prop.description),
                IF prop.description # "" THEN clean_description(prop.description)
                ELSE fr.cleaned_description)

head_named(fr, prop, seen, descs, aux, key, pe) ==
    head_updated(fr, prop, seen, descs, aux, key, pe,
                 with_cardinality(pe[1],
                                  sanitize_type_data_cardinality(type_or_default(prop), FALSE),
                                  prop.description))

head_keyed(fr, prop, seen, descs, aux, key) ==
    head_named(fr, prop, seen, descs, aux, key,
               process_enum_defaultInte(prop, key, prop.description))

\* the loop body from the skip test to the call of extract_values: the
\* locals and the fields of self it leaves; fr is the frame of the call
property_head(fr, prop, seen, descs, aux) ==
    head_keyed(fr, prop, seen, descs, aux, qualified_name(fr.parent, prop.name))

\* which key of the property holds the pointer followed by the loop body
where_of(prop) ==
    IF prop.ref # "" THEN "ref"
    ELSE IF prop.hasItems THEN (IF prop.items.ref # "" THEN "items" ELSE "")
    ELSE IF prop.hasAddl THEN (IF prop.addl.ref # "" THEN "addl" ELSE "")
    ELSE ""

pointer_of(prop) ==
    IF where_of(prop) = "ref" THEN prop.ref
    ELSE IF where_of(prop) = "items" THEN prop.items.ref
    ELSE IF where_of(prop) = "addl" THEN prop.addl.ref
    ELSE ""

\* the test of the cycle guard: ref in local_stack_refs
\* a guard that finds no pointer on the stack
on_stack_never(ref, stack) == FALSE

on_stack(ref, stack) == ref \in Range(stack)

\* a pop that empties the list
pop_all(stack) == <<>>

\* local_stack_refs.pop()
\* a return that leaves the pointer on the stack
pop_keeps(stack) == stack

pop(stack) == SubSeq(stack, 1, Len(stack) - 1)

\* Python: if ref_schema
\* a test that takes every result of resolve_reference for a schema
resolved_always(ref_schema) == TRUE

resolved(ref_schema) == ref_schema # None /\ ~IsEmptyDict(ref_schema)

\* sanitize_name(ref_name.split('_')[-1]) of ref_name = sanitize_name(ref.split('/')[-1])
sanitized_ref(ref) ==
    sanitize_name(Last(Split(sanitize_name(Last(Split(ref, "/"))), "_")))

no_cardinality(full_name) == Replace(full_name, " cardinality [1..*]", "")

\* the branch taken for a resolved schema that has no properties (and for the
\* oneOf schemas): the children added, the name left in full_name, and
\* self.is_cardinality afterwards
schema_children(where, ref, ref_schema, full_name, feature_type, is_card) ==
    LET clean == clean_description(ref_schema.description)
        oneOf_name == IF where = "addl" THEN sanitize_name(no_cardinality(full_name))
                      ELSE sanitize_name(full_name)
    IN  IF ref_schema.hasOneOf /\ where # "items"
        THEN [subs |-> process_oneOf(ref_schema.oneOf, oneOf_name, feature_type).sub_features,
              full_name |-> IF where = "addl" THEN no_cardinality(full_name) ELSE full_name,
              is_cardinality |->
                  is_card \/ \E n \in 1..Len(ref_schema.oneOf) :
                                /\ ref_schema.oneOf[n].hasType
                                /\ Capitalize(ref_schema.oneOf[n].type) = "Object"]
        ELSE IF where = "ref"
        THEN [subs |->
                <<Leaf(full_name \o "_" \o sanitized_ref(ref) \o " {doc '" \o clean \o "'}",
                       "optional", ref_schema.description,
                       sanitize_type_data(ref_schema.type))>>
                \o (IF EndsWith(full_name, "creationTimestamp")
                    THEN <<Leaf(full_name \o "_isNull {doc 'Added option to select when creationTimestamp is empty declared: null'}",
                                "optional",
                                "{doc 'Added option to select when creationTimestamp is empty declared: null'}",
                                "")>>
                    ELSE IF EndsWith(full_name, "fieldsV1")
                    THEN <<Leaf(full_name \o "_isEmpty02 {doc 'Added option to select when fieldsV1 is empty declared: {}'}",
                                "optional",
                                "{doc 'Added option to select when fieldsV1 is empty declared: {}'}",
                                "")>>
                    ELSE <<>>),
              full_name |-> full_name,
              is_cardinality |-> sanitize_type_data_cardinality(ref_schema.type, is_card)]
        ELSE [subs |->
                <<Leaf(no_cardinality(full_name) \o "_" \o sanitized_ref(ref)
                          \o " {doc '" \o clean \o "'}",
                       "optional",
                       IF where = "items" THEN clean ELSE ref_schema.description,
                       "")>>,
              full_name |-> no_cardinality(full_name),
              is_cardinality |-> is_card]

\* the children added after the recursive call of the $ref branch returned
emptyDir_children(full_name) ==
    IF EndsWith(full_name, "emptyDir") \/ EndsWith(full_name, "EmptyDirVolumeSource")
    THEN <<Leaf(full_name \o "_isEmpty {doc 'Added option to select when emptyDir is empty declared {} '}",
                "optional",
                "{doc 'Added option to select when emptyDir is empty declared {} '}",
                "")>>
    ELSE <<>>

\* the branches of 'items' and 'additionalProperties' that hold a type and no
\* pointer: the children added and the name left in full_name
type_children(prop, full_name, is_card, bool_added_value, description) ==
    LET d_items == "Added String mandatory for complete structure Array in the model The modified is not in json but provide represents, Array of Strings: StringValue"
        d_ints == "Added Integer mandatory for complete structure Array in the model The modified is not in json but provide represents, Array of Integers: IntegerValue"
        d_ap_items == "Added String mandatory for complete structure Array in the model into AdditionalProperties array Array of Strings: StringValue"
        d_string == "Added String mandatory for complete structure Object in the model The modified is not in json but provide represents, Array of Strings: StringValue"
        d_maps == "Added Map for complete structure Object in the model The modified is not in json but provide represents, Array of pairs key, value: ValueMap, KeyMap"
        n1 == no_cardinality(full_name)
        n2 == Replace(n1, " cardinality [0..*]", "")
        maps(type) ==
            <<Leaf(n2 \o "_KeyMap {doc 'key: " \o d_maps \o "'}", type, d_maps, "String"),
              Leaf(n2 \o "_ValueMap {doc 'value: " \o d_maps \o "'}", type, d_maps, "String")>>
        same == [subs |-> <<>>, full_name |-> full_name]
    IN  IF prop.ref # "" THEN same
        ELSE IF prop.hasItems
        THEN IF prop.items.ref = "" /\ prop.items.type # "" /\ is_card
             THEN [subs |->
                     IF prop.items.type = "string" /\ ~bool_added_value
                     THEN <<Leaf(n1 \o "_StringValue {doc '" \o d_items \o "'}",
                                 "mandatory", d_items, "String")>>
                     ELSE IF prop.items.type = "integer"
                     THEN <<Leaf(n1 \o "_IntegerValue {doc '" \o d_ints \o "'}",
                                 "mandatory", d_ints, "Integer")>>
                     ELSE <<>>,
                   full_name |-> n1]
             ELSE same
        ELSE IF prop.hasAddl /\ prop.addl.ref = ""
        THEN IF prop.addl.hasItems /\ is_card
             THEN IF prop.addl.itemsType = "string" /\ ~bool_added_value
                  THEN [subs |-> <<Leaf(n1 \o "_StringValueAdditional {doc '"
                                           \o d_ap_items \o "'}",
                                        "mandatory", d_ap_items, "String")>>,
                        full_name |-> n1]
                  ELSE same
             ELSE IF prop.addl.type = "string" /\ is_card /\ ~bool_added_value
             THEN [subs |->
                     IF AnyIn(description, <<"Map of", "matchLabels is a map of",
                                             "label keys and values">>)
                     THEN maps("mandatory")
                     ELSE IF Contains(description, "unstructured key value map")
                     THEN maps("optional")
                     ELSE <<Leaf(n2 \o "_StringValueAdditional {doc '" \o d_string \o "'}",
                                 "mandatory", d_string, "String")>>,
                   full_name |-> n2]
             ELSE same
        ELSE same

\* the children built from the extracted values, in the order the set is iterated
RECURSIVE values_children(_, _)
values_children(full_name, values) ==
    IF values = <<>> THEN <<>>
    ELSE LET bool_default_value == Contains(Head(values), "{default")
             value == IF bool_default_value THEN Replace(Head(values), " {default}", "")
                      ELSE Head(values)
             full_name_value == full_name \o "_" \o value
             aux == "Specific value: " \o value
         IN  (IF Contains(full_name_value, "_Healthy") THEN <<>>
              ELSE <<Leaf(full_name_value
                             \o (IF bool_default_value THEN " {default, doc '"
                                 ELSE " {doc '") \o aux \o "'}",
                          "alternative", aux, "")>>)
             \o values_children(full_name, Tail(values))

\* the loop body from the extracted values to the test of nested properties:
\* the feature and the name left in full_name; aux is
\* self.feature_aux_original_type at that point
property_tail(feature, full_name, values, description, aux) ==
    LET keyword == \/ AnyIn(full_name, boolean_keywords)
                   \/ SearchKeywordRegex(full_name)
                   \/ /\ AnyIn(full_name, special_features_config)
                      /\ Contains(description, "Note that this field cannot be set when")
        n == Replace(full_name, " {abstract}", "")
        d == "Added String mandatory for changing booleans of boolean_keywords: "
                \o aux \o " *_name"
    IN  IF values # <<>>
        THEN [feature |-> [feature EXCEPT
                             !.type_data = "",
                             !.sub_features =
                                 @ \o values_children(no_cardinality(full_name), values)],
              full_name |-> no_cardinality(full_name)]
        ELSE IF keyword
        THEN [feature |-> [feature EXCEPT !.sub_features = @ \o
                             (IF aux \in {"String", "string"}
                              THEN <<Leaf(n \o "_nameStr {doc '" \o d \o "'}",
                                          "mandatory", d, "String")>>
                              ELSE IF aux \in {"Integer", "integer"}
                              THEN <<Leaf(n \o "_valueInt {doc '" \o d \o "'}",
                                          "mandatory", d, "Integer")>>
                              ELSE <<>>)],
              full_name |-> n]
        ELSE [feature |-> feature, full_name |-> full_name]

(***************************************************************************)
(* properties_to_uvl and the text generate_uvl_from_definitions builds.    *)
(***************************************************************************)
RECURSIVE Tabs(_)
Tabs(n) == IF n = 0 THEN "" ELSE "\t" \o Tabs(n - 1)

uvl_boolean_keywords ==
    <<"AppArmorProfile_localhostProfile", "appArmorProfile_localhostProfile",
      "seccompProfile_localhostProfile", "SeccompProfile_localhostProfile",
      "IngressClassList_items_spec_parameters_namespace",
      "IngressClassParametersReference_namespace",
      "IngressClass_spec_parameters_namespace",
      "IngressClassSpec_parameters_namespace">>

type_str(feature) ==
    LET t == IF feature.type_data # "" THEN Capitalize(feature.type_data) \o " "
             ELSE "Boolean "
    IN  IF t = "Boolean " THEN ""
        ELSE IF AnyIn(feature.name, uvl_boolean_keywords)
                /\ ~EndsWith(feature.name, "nameStr") THEN ""
        ELSE t

OfType(feature_list, type) == SelectSeq(feature_list, LAMBDA f : f.type = type)

\* a serialization that writes the children under no heading
RECURSIVE properties_to_uvl_flat(_, _)
properties_to_uvl_flat(feature_list, indent) ==
    IF feature_list = <<>> THEN ""
    ELSE Tabs(indent) \o type_str(Head(feature_list)) \o Head(feature_list).name \o "\n"
         \o properties_to_uvl_flat(Head(feature_list).sub_features, indent + 2)
         \o properties_to_uvl_flat(Tail(feature_list), indent)

RECURSIVE properties_to_uvl(_, _)
properties_to_uvl(feature_list, indent) ==
    IF feature_list = <<>> THEN ""
    ELSE LET feature == Head(feature_list)
             group(type) ==
                 IF OfType(feature.sub_features, type) = <<>> THEN ""
                 ELSE Tabs(indent) \o "\t" \o type \o "\n"
                      \o properties_to_uvl(OfType(feature.sub_features, type), indent + 2)
         IN  Tabs(indent) \o type_str(feature) \o feature.name \o "\n"
             \o group("mandatory") \o group("optional") \o group("alternative")
             \o properties_to_uvl(Tail(feature_list), indent)

uvl_header == "namespace KubernetesTest1\nfeatures\n\tKubernetes {abstract}\n\t\toptional\n"

\* the text one iteration of the loop over the definitions adds to uvl_output
definition_uvl(schema_name, schema, mandatory_features, optional_features) ==
    LET cleaned_description ==
            IF schema.description # "" THEN clean_description(schema.description)
            ELSE "Auto doc generate for not add empty Strings No descripcion in schemas JSON"
        node == Tabs(3) \o sanitize_name(schema_name) \o " {doc '" \o cleaned_description
                   \o "'}\n"
        tree == IF mandatory_features # <<>>
                THEN node \o Tabs(4) \o "mandatory\n"
                     \o properties_to_uvl(mandatory_features, 5)
                     \o (IF optional_features # <<>>
                         THEN Tabs(4) \o "optional\n"
                              \o properties_to_uvl(optional_features, 5)
                         ELSE "")
                ELSE IF optional_features # <<>>
                THEN node \o Tabs(4) \o "optional\n"
                     \o properties_to_uvl(optional_features, 5)
                ELSE ""
        simple == IF schema.properties # <<>> THEN ""
                  ELSE IF schema.hasOneOf
                  THEN properties_to_uvl(<<process_oneOf(schema.oneOf,
                                             sanitize_name(schema_name), "optional")>>, 3)
                  ELSE node
    IN  tree \o simple

(***************************************************************************)
(* The state of one run of convert01.py.                                   *)
(***************************************************************************)
VARIABLES
    definitions,                \* the loaded document: its "definitions" mapping
    resolved_references,        \* SchemaProcessor: cache of resolve_reference
    processed_features,         \* SchemaProcessor: names recorded by parse_properties
    seen_descriptions,          \* SchemaProcessor: keys of is_valid_description
    descriptions,               \* SchemaProcessor: the categorized descriptions
    is_cardinality,             \* SchemaProcessor: flag
    is_deprecated,              \* SchemaProcessor: flag
    feature_aux_original_type,  \* SchemaProcessor: type saved by update_type_data
    local_stack_refs,           \* the list shared by the calls of one branch
    frames,                     \* the active calls of parse_properties
    schema_idx,                 \* definitions consumed by generate_uvl_from_definitions
    uvl_output,                 \* the text generate_uvl_from_definitions builds
    output_file,                \* the content of the .uvl file
    descriptions_file,          \* the content of the descriptions JSON file
    uvl_rules,                  \* generar_constraintsDef: the rules collected
    rec_idx,                    \* generar_constraintsDef: restrictions consumed
    count,                      \* analisisScript01: global counter
    conv,                       \* the last call of convert_to_uvl_constraints
    pc,                         \* position of the script
    run,                        \* which run of the script this is
    first_output,               \* the .uvl file the previous run left
    last,                       \* what the last step of parse_properties did
    skipped_refs,               \* the pointers skipped by the cycle guard so far
    feature_paths               \* the paths of the nodes written to uvl_output

vars == <<definitions, resolved_references, processed_features, seen_descriptions,
          descriptions, is_cardinality, is_deprecated, feature_aux_original_type,
          local_stack_refs, frames, schema_idx, uvl_output, output_file,
          descriptions_file, uvl_rules, rec_idx, count, conv, pc, run,
          first_output, last, skipped_refs, feature_paths>>

processor_vars == <<resolved_references, processed_features, seen_descriptions,
                    descriptions, is_cardinality, is_deprecated,
                    feature_aux_original_type>>

synth_vars == <<uvl_rules, rec_idx, count, conv>>

\* no call of convert_to_uvl_constraints yet
NoConv == [feature_name |-> "", description |-> "", type_data |-> "",
           raised |-> FALSE, none |-> FALSE, rule |-> ""]

EmptyDescriptions == [values |-> <<>>, restrictions |-> <<>>, dependencies |-> <<>>]

NoFeature == Leaf("", "", "", "")

\* the locals of the loop body that live across a recursive call
NoCur == [feature |-> NoFeature, full_name |-> "", description |-> "",
          values |-> <<>>, key |-> "", ptr |-> "", resolved |-> TRUE, type |-> "",
          name |-> "", declared_required |-> FALSE]

\* a call of parse_properties: its arguments and its locals; declared is the
\* `required` list of the schema that declares the properties, entry the
\* contents of local_stack_refs when the call is made
NewFrame(properties, required, parent_name, declared, entry) ==
    [properties |-> properties, required |-> required, parent |-> parent_name,
     declared |-> declared, entry |-> entry,
     idx |-> 1, mandatory_features |-> <<>>, optional_features |-> <<>>,
     abstract_bool |-> FALSE, cleaned_description |-> "", wait |-> "", cur |-> NoCur]

Event(kind, cur) ==
    [kind |-> kind, key |-> cur.key, recorded |-> cur.full_name, ptr |-> cur.ptr,
     resolved |-> cur.resolved, feature |-> cur.feature, type |-> cur.type,
     name |-> cur.name, declared_required |-> cur.declared_required]

\* the orders in which a set can be iterated
Orders(S) ==
    {q \in [1..Cardinality(S) -> S] : \A i, j \in 1..Len(q) : i # j => q[i] # q[j]}

InitOf(documents) ==
    /\ definitions \in documents
    /\ resolved_references = <<>>
    /\ processed_features = {}
    /\ seen_descriptions = {}
    /\ descriptions = EmptyDescriptions
    /\ is_cardinality = FALSE
    /\ is_deprecated = FALSE
    /\ feature_aux_original_type = ""
    /\ local_stack_refs = <<>>
    /\ frames = <<>>
    /\ schema_idx = 0
    /\ uvl_output = uvl_header
    /\ output_file = ""
    /\ descriptions_file = EmptyDescriptions
    /\ uvl_rules = <<>>
    /\ rec_idx = 0
    /\ count = 0
    /\ conv = NoConv
    /\ pc = "generate"
    /\ run = 1
    /\ first_output = ""
    /\ last = Event("init", NoCur)
    /\ skipped_refs = {}
    /\ feature_paths = <<>>

Init == InitOf(Documents)

\* generate_uvl_from_definitions: the call of parse_properties for the next definition
CallParse ==
    /\ pc = "generate"
    /\ frames = <<>>
    /\ schema_idx < Len(definitions)
    /\ schema_idx' = schema_idx + 1
    /\ frames' = <<NewFrame(definitions[schema_idx + 1].schema.properties,
                            definitions[schema_idx + 1].schema.required,
                            sanitize_name(definitions[schema_idx + 1].name),
                            definitions[schema_idx + 1].schema.required, <<>>)>>
    /\ local_stack_refs' = <<>>
    /\ last' = Event("parse", NoCur)
    /\ UNCHANGED <<definitions, processor_vars, uvl_output, output_file,
                   descriptions_file, synth_vars, pc, run, first_output, skipped_refs,
                   feature_paths>>

\* the end of the loop body: the feature joins its group, the name is recorded
Complete(below, fr, cur) ==
    /\ frames' = below \o
          <<[fr EXCEPT
               !.idx = @ + 1, !.wait = "", !.cur = NoCur,
               !.mandatory_features =
                   IF cur.feature.type = "mandatory" THEN Append(@, cur.feature) ELSE @,
               !.optional_features =
                   IF cur.feature.type = "mandatory" THEN @ ELSE Append(@, cur.feature)]>>
    /\ processed_features' = processed_features \cup {cur.full_name}
    /\ last' = Event("emit", cur)

\* the loop body from the extracted values on: it ends the iteration, or
\* calls parse_properties for the nested properties with the list stack
Proceed(below, fr, cur, aux, stack) ==
    \E t \in {property_tail(cur.feature, cur.full_name, cur.values, cur.description, aux)} :
    \E cur1 \in {[cur EXCEPT !.feature = t.feature, !.full_name = t.full_name]} :
        IF fr.properties[fr.idx].hasProperties
        THEN /\ Len(below) + 1 < MaxDepth
             /\ frames' = below \o <<[fr EXCEPT !.wait = "nested", !.cur = cur1]>>
                    \o <<NewFrame(fr.properties[fr.idx].properties,
                                  fr.properties[fr.idx].required,
                                  strip_annotations(t.full_name),
                                  fr.properties[fr.idx].required, stack)>>
             /\ last' = Event("call", cur1)
             /\ UNCHANGED processed_features
        ELSE Complete(below, fr, cur1)

\* the loop body once the name is known not to be processed: h is what the
\* head of the body computed, ref_schema what the pointer of the property
\* resolves to
Iterate(below, fr, prop, cur, h, ref, ref_schema) ==
    /\ seen_descriptions' = h.seen
    /\ descriptions' = h.descs
    /\ feature_aux_original_type' = h.aux
    /\ is_deprecated' = h.is_deprecated
    /\ IF ref # "" /\ on_stack(ref, local_stack_refs)
       THEN \* the cycle guard: continue
            /\ frames' = below \o <<[fr EXCEPT !.idx = @ + 1]>>
            /\ last' = Event("cycle", cur)
            /\ skipped_refs' = skipped_refs \cup {ref}
            /\ is_cardinality' = h.is_cardinality
            /\ UNCHANGED <<resolved_references, processed_features, local_stack_refs>>
       ELSE IF ref # "" /\ resolved(ref_schema) /\ ref_schema.hasProperties
       THEN \* the recursive call for the schema behind the pointer
            /\ Len(frames) < MaxDepth
            /\ frames' = below
                  \o <<[fr EXCEPT !.wait = where_of(prop), !.cur = cur]>>
                  \o <<NewFrame(ref_schema.properties,
                                IF where_of(prop) = "addl" THEN <<>>
                                ELSE ref_schema.required,
                                h.full_name, ref_schema.required,
                                Append(local_stack_refs, ref))>>
            /\ local_stack_refs' = Append(local_stack_refs, ref)
            /\ resolved_references' =
                  resolve_reference_cache(definitions, resolved_references, ref)
            /\ last' = Event("call", cur)
            /\ is_cardinality' = h.is_cardinality
            /\ UNCHANGED <<processed_features, skipped_refs>>
       ELSE IF ref # ""
       THEN \* the pointer is pushed, followed and popped
            \E sc \in {IF resolved(ref_schema)
                       THEN schema_children(where_of(prop), ref, ref_schema,
                                h.full_name, h.feature_type, h.is_cardinality)
                       ELSE [subs |-> <<>>, full_name |-> h.full_name,
                             is_cardinality |-> h.is_cardinality]} :
                /\ Proceed(below, fr,
                      [cur EXCEPT !.feature.sub_features = sc.subs,
                                  !.full_name = sc.full_name], h.aux,
                      pop(Append(local_stack_refs, ref)))
                /\ local_stack_refs' = pop(Append(local_stack_refs, ref))
                /\ resolved_references' =
                      resolve_reference_cache(definitions, resolved_references, ref)
                /\ is_cardinality' = sc.is_cardinality
                /\ UNCHANGED skipped_refs
       ELSE \E tc \in {type_children(prop, h.full_name, h.is_cardinality,
                                     cur.values # <<>>, h.description)} :
                /\ Proceed(below, fr,
                      [cur EXCEPT !.feature.sub_features = tc.subs,
                                  !.full_name = tc.full_name], h.aux, local_stack_refs)
                /\ is_cardinality' = h.is_cardinality
                /\ UNCHANGED <<resolved_references, local_stack_refs, skipped_refs>>

\* parse_properties: one iteration of the loop over the properties, up to its
\* end or up to the recursive call it makes
Step ==
    /\ pc = "generate"
    /\ frames # <<>>
    /\ Last(frames).wait = ""
    /\ Last(frames).idx <= Len(Last(frames).properties)
    /\ \E fr \in {Last(frames)}, below \in {SubSeq(frames, 1, Len(frames) - 1)} :
       \E prop \in {fr.properties[fr.idx]} :
       \E key \in {qualified_name(fr.parent, prop.name)} :
           IF key \in processed_features
           THEN /\ frames' = below \o <<[fr EXCEPT !.idx = @ + 1]>>
                /\ last' = Event("skip", [NoCur EXCEPT !.key = key])
                /\ UNCHANGED <<processor_vars, local_stack_refs, skipped_refs>>
           ELSE \E values \in Orders(extracted_values_of[prop.description]) :
                \E h \in {property_head(fr, prop, seen_descriptions, descriptions,
                                        feature_aux_original_type)} :
                \E ref \in {pointer_of(prop)} :
                \E ref_schema \in {resolve_reference(definitions, resolved_references, ref)} :
                    Iterate(below,
                            [fr EXCEPT !.abstract_bool = h.abstract_bool,
                                       !.cleaned_description = h.cleaned_description],
                            prop,
                            [feature |-> h.feature, full_name |-> h.full_name,
                             description |-> h.description, values |-> values,
                             key |-> key, ptr |-> ref,
                             resolved |-> ref = "" \/ resolved(ref_schema),
                             type |-> prop.type, name |-> prop.name,
                             declared_required |-> prop.name \in Range(fr.declared)],
                            h, ref, ref_schema)
    /\ UNCHANGED <<definitions, schema_idx, uvl_output, output_file, descriptions_file,
                   synth_vars, pc, run, first_output,
                   feature_paths>>

\* parse_properties returns to the loop body that called it
Return ==
    /\ pc = "generate"
    /\ Len(frames) >= 2
    /\ Last(frames).idx > Len(Last(frames).properties)
    /\ \E callee \in {Last(frames)}, fr \in {frames[Len(frames) - 1]},
          below \in {SubSeq(frames, 1, Len(frames) - 2)} :
       \E cur \in {[fr.cur EXCEPT !.feature.sub_features =
                        @ \o callee.mandatory_features \o callee.optional_features]} :
           IF fr.wait = "nested"
           THEN /\ Complete(below, fr, cur)
                /\ UNCHANGED local_stack_refs
           ELSE /\ Proceed(below, fr,
                      IF fr.wait = "ref"
                      THEN [cur EXCEPT !.feature.sub_features =
                                           @ \o emptyDir_children(cur.full_name)]
                      ELSE cur,
                      feature_aux_original_type, pop(local_stack_refs))
                /\ local_stack_refs' = pop(local_stack_refs)
    /\ UNCHANGED <<definitions, resolved_references, seen_descriptions, descriptions,
                   is_cardinality, is_deprecated, feature_aux_original_type, schema_idx,
                   uvl_output, output_file, descriptions_file, synth_vars, pc, run,
                   first_output, skipped_refs,
                   feature_paths>>

\* the qualified path of a node: its name without the annotation block and
\* the cardinality suffix
path_of(name) ==
    Replace(Replace(strip_annotations(name), " cardinality [1..*]", ""),
            " cardinality [0..*]", "")

\* the paths of the nodes of a list of features, children included
RECURSIVE tree_paths(_)
tree_paths(feature_list) ==
    IF feature_list = <<>> THEN <<>>
    ELSE <<path_of(Head(feature_list).name)>>
         \o tree_paths(Head(feature_list).sub_features)
         \o tree_paths(Tail(feature_list))

\* generate_uvl_from_definitions: the call for a definition returned and its
\* text is added to uvl_output
EmitDefinition ==
    /\ pc = "generate"
    /\ Len(frames) = 1
    /\ frames[1].idx > Len(frames[1].properties)
    /\ uvl_output' = uvl_output
          \o definition_uvl(definitions[schema_idx].name, definitions[schema_idx].schema,
                            frames[1].mandatory_features, frames[1].optional_features)
    /\ frames' = <<>>
    /\ feature_paths' = feature_paths
          \o <<sanitize_name(definitions[schema_idx].name)>>
          \o tree_paths(frames[1].mandatory_features \o frames[1].optional_features)
    /\ last' = Event("definition", NoCur)
    /\ UNCHANGED <<definitions, processor_vars, local_stack_refs, schema_idx, output_file,
                   descriptions_file, synth_vars, pc, run, first_output, skipped_refs>>

\* generate_uvl_from_definitions: the .uvl file and the descriptions are written;
\* the script goes on to generar_constraintsDef
SaveModel ==
    /\ pc = "generate"
    /\ frames = <<>>
    /\ schema_idx = Len(definitions)
    /\ output_file' = uvl_output
    /\ descriptions_file' = descriptions
    /\ pc' = "constraints"
    /\ last' = Event("saved", NoCur)
    /\ UNCHANGED <<definitions, processor_vars, local_stack_refs, frames, schema_idx,
                   uvl_output, synth_vars, run, first_output, skipped_refs,
                   feature_paths>>

(***************************************************************************)
(* analisisScript01.py: the regular expressions.  Their patterns are       *)
(* sequences of literals and of runs over a character class whose          *)
(* neighbours lie outside the class, so a match is found left to right.    *)
(***************************************************************************)
Lit(v) == [k |-> "lit", v |-> v, C |-> {}]
\* an optional literal: (?:v)? and v?
Opt(v) == [k |-> "opt", v |-> v, C |-> {}]
\* a captured run of one or more characters of C: ([C]+)
Cap(C) == [k |-> "cap", v |-> "", C |-> C]
\* \s+ and \s*
Blank1 == [k |-> "run1", v |-> "", C |-> SpaceSet]
Blank0 == [k |-> "run0", v |-> "", C |-> SpaceSet]

\* the class [^...]: every character but those of X
NotIn(X) == {c \in STRING : c \notin X}

\* the match of the tokens at position i: whether there is one, where it ends,
\* and the captured groups
RECURSIVE MatchSeq(_, _, _, _)
MatchSeq(s, i, toks, ic) ==
    IF toks = <<>> THEN [ok |-> TRUE, end |-> i, groups |-> <<>>]
    ELSE LET t == Head(toks)
             fail == [ok |-> FALSE, end |-> i, groups |-> <<>>]
             j == RunEnd(s, i, t.C)
         IN  IF t.k = "lit"
             THEN IF MatchAt(s, i, t.v, ic)
                  THEN MatchSeq(s, i + Len(t.v), Tail(toks), ic) ELSE fail
             ELSE IF t.k = "opt"
             THEN IF MatchAt(s, i, t.v, ic)
                     /\ MatchSeq(s, i + Len(t.v), Tail(toks), ic).ok
                  THEN MatchSeq(s, i + Len(t.v), Tail(toks), ic)
                  ELSE MatchSeq(s, i, Tail(toks), ic)
             ELSE IF t.k = "run0" THEN MatchSeq(s, j, Tail(toks), ic)
             ELSE IF j = i THEN fail
             ELSE IF t.k = "run1" THEN MatchSeq(s, j, Tail(toks), ic)
             ELSE LET r == MatchSeq(s, j, Tail(toks), ic)
                  IN  [r EXCEPT !.groups = <<SubSeq(s, i, j - 1)>> \o @]

\* pattern.search(s): the groups of the leftmost match, <<>> when there is none
Search(s, toks, ic) ==
    LET P == {i \in 1..Len(s) : MatchSeq(s, i, toks, ic).ok}
    IN  IF P = {} THEN <<>> ELSE MatchSeq(s, Min(P), toks, ic).groups

\* pattern.findall(s): the groups of the successive matches
RECURSIVE FindAll(_, _, _, _)
FindAll(s, toks, ic, from) ==
    LET P == {i \in from..Len(s) : MatchSeq(s, i, toks, ic).ok}
    IN  IF P = {} THEN <<>>
        ELSE <<MatchSeq(s, Min(P), toks, ic).groups>>
             \o FindAll(s, toks, ic, MatchSeq(s, Min(P), toks, ic).end)

\* feature_key.rsplit('_', 1)[0]
feature_without_lastProperty(feature_key) == RSplitHead(feature_key, "_")

(***************************************************************************)
(* extract_bounds                                                          *)
(***************************************************************************)
Digits == Cap(DigitChars)
Word == Cap(WordSet)
Letters == Cap(LetterSet)

range_pattern ==
    <<Digits, Blank0, Lit("<"), Blank0, [Word EXCEPT !.k = "run1"], Blank0, Lit("<"),
      Blank0, Digits>>
inclusive_range_pattern ==
    <<Digits, Blank0, Lit("-"), Blank0, Digits, Blank0, Lit("(inclusive)")>>
range_text_pattern ==
    <<Lit("Number"), Blank1, Lit("must"), Blank1, Lit("be"), Blank1, Lit("in"), Blank1,
      Lit("the"), Blank1, Lit("range"), Blank1, Digits, Blank1, Lit("to"), Blank1, Digits>>
must_be == <<Lit("must be greater than"), Opt(" or equal to"), Lit(" "), Word>>
less_than_pattern == <<Lit("less than or equal to "), Digits>>
between_text_pattern ==
    <<Lit("must"), Blank1, Lit("be"), Blank1, Lit("between"), Blank1, Digits, Blank1,
      Lit("and"), Blank1, Digits>>

\* a bound that is None
NoBound == -1

\* convert_word_to_num, after int() for the digit strings
bound_of(word) ==
    IF IsDigits(word) THEN IntOf(word)
    ELSE IF Lower(word) = "zero" THEN 0
    ELSE IF Lower(word) = "one" THEN 1
    ELSE NoBound

\* extract_bounds(description): min_bound, max_bound, is_port_number, is_other_number
extract_bounds(description) ==
    LET d == Replace(Replace(Lower(description), "zero", "0"), "one", "1")
        port == Contains(Lower(description), "valid port number")
        m1 == Search(d, range_pattern, FALSE)
        m2 == Search(d, inclusive_range_pattern, FALSE)
        m3 == Search(d, range_text_pattern, TRUE)
        m4 == Search(d, between_text_pattern, TRUE)
        g == Search(d, must_be, TRUE)
        l == Search(d, less_than_pattern, TRUE)
        pair(m, other) == [min_bound |-> IntOf(m[1]), max_bound |-> IntOf(m[2]),
                           is_port_number |-> port, is_other_number |-> other]
    IN  IF m1 # <<>> THEN pair(m1, FALSE)
        ELSE IF m2 # <<>> THEN pair(m2, FALSE)
        ELSE IF m3 # <<>> THEN pair(m3, FALSE)
        ELSE IF m4 # <<>> THEN pair(m4, TRUE)
        ELSE [min_bound |-> IF g # <<>> THEN bound_of(g[1]) ELSE NoBound,
              max_bound |-> IF l # <<>> THEN IntOf(l[1]) + 1 ELSE NoBound,
              is_port_number |-> port,
              is_other_number |-> g # <<>> \/ l # <<>>]

(***************************************************************************)
(* extract_minimum_value                                                   *)
(***************************************************************************)
extract_minimum_value(description, feature_key) ==
    LET minimum_match == Search(description, <<Lit("Minimum value is~"), Digits>>, FALSE)
        minimum_text_match ==
            Search(description,
                   <<Lit("minimum valid value for expirationSeconds is~"), Digits>>, FALSE)
        range_match ==
            Search(description, <<Lit("in the range~"), Digits, Lit("-"), Digits>>, FALSE)
    IN  IF minimum_match # <<>> THEN feature_key \o " > " \o minimum_match[1]
        ELSE IF Contains(description, "Value must be non-negative")
        THEN feature_key \o " > 0"
        ELSE IF minimum_text_match # <<>>
        THEN feature_key \o " > " \o minimum_text_match[1]
        ELSE IF range_match # <<>>
        THEN feature_key \o " > " \o range_match[1] \o " & " \o feature_key \o " < "
                \o range_match[2]
        ELSE ""

(***************************************************************************)
(* The handlers of the trigger phrases.  A handler that can raise has a    *)
(* companion ..._raises telling when it does.                              *)
(***************************************************************************)
quoted_letters == <<Lit(DQ), Letters, Lit(DQ)>>
ticked_letters == <<Lit(BQ), Letters, Lit(BQ)>>
set_to == <<Blank1, Lit("is"), Blank1, Lit("set"), Blank1, Lit("to"), Blank1>>

required_when_pattern ==
    <<Lit("Required when"), Blank1, Word>> \o set_to
    \o <<Lit(DQ), Cap(NotIn({DQ})), Lit(DQ)>>
must_be_unset_pattern ==
    <<Lit("must be unset when"), Blank1, Word>> \o set_to
    \o <<Lit(DQ), Cap(NotIn({DQ})), Lit(DQ)>>
required_when_pattern_strategy ==
    <<Lit("Required when"), Blank1, Lit(BQ), Word, Lit(BQ)>> \o set_to
    \o <<Opt(BQ), Opt(DQ), Cap(NotIn({DQ, BQ}))>>

extract_constraints_required_when(description, feature_key) ==
    LET fw == feature_without_lastProperty(feature_key)
        required_match == Search(description, required_when_pattern, TRUE)
        unset_match == Search(description, must_be_unset_pattern, TRUE)
        when_match == Search(description, required_when_pattern_strategy, TRUE)
    IN  IF required_match # <<>> /\ unset_match # <<>>
        THEN fw \o "_" \o required_match[1] \o "_" \o required_match[2] \o " => "
                \o feature_key
                \o " & !(" \o fw \o "_" \o unset_match[1] \o "_" \o unset_match[2] \o ")"
        ELSE IF when_match # <<>> /\ required_match = <<>> /\ unset_match = <<>>
        THEN fw \o "_" \o when_match[1] \o "_" \o when_match[2] \o " => " \o feature_key
        ELSE ""

extract_constraints_if_raises(description, feature_key) ==
    /\ Contains(feature_key, "exempt")
    /\ Len(FindAll(description, quoted_letters, FALSE, 1)) < 2

extract_constraints_if(description, feature_key) ==
    LET fw == feature_without_lastProperty(feature_key)
        if_match == Search(description, quoted_letters, FALSE)
        exempt_match == FindAll(description, quoted_letters, FALSE, 1)
    IN  IF if_match # <<>> /\ ~Contains(feature_key, "exempt")
        THEN IF \/ Contains(description, "Must be set if type is")
                \/ Contains(description, "Must be set if and only if type")
                \/ Contains(description, "may be non-empty only if")
             THEN fw \o "_type_" \o if_match[1] \o " <=> " \o feature_key
             ELSE fw \o "_type_" \o if_match[1] \o " => " \o feature_key
        ELSE IF Contains(feature_key, "exempt")
        THEN "(" \o fw \o "_type_" \o exempt_match[1][1] \o " => !" \o feature_key
                \o ") | (" \o fw \o "_type_" \o exempt_match[2][1] \o " => "
                \o feature_key \o ")"
        ELSE ""

extract_constraints_mutualy_exclusive_raises(description, feature_key) ==
    Len(FindAll(description, ticked_letters, FALSE, 1)) = 1

extract_constraints_mutualy_exclusive(description, feature_key) ==
    LET fw == feature_without_lastProperty(feature_key)
        exclusive_match == FindAll(description, ticked_letters, FALSE, 1)
        a == fw \o "_" \o exclusive_match[1][1]
        b == fw \o "_" \o exclusive_match[2][1]
    IN  IF exclusive_match # <<>>
        THEN "(" \o a \o " => !" \o b \o ") & (" \o b \o " => !" \o a \o ")"
        ELSE ""

\* the groups of feature keys, in the order of the elif chain, with the
\* literal searched by r'^(.*?X)'
os_name_groups ==
    <<"_template_spec", "_Pod_spec", "_PodList_items_spec", "_core_v1_PodSpec",
      "_PodTemplateSpec_spec">>

list_anothers ==
    <<"_v1_Container_securityContext_", "_v1_EphemeralContainer_securityContext_",
      "_PodSecurityContext_", "_v1_SecurityContext_">>

extract_constraints_os_name(description, feature_key) ==
    LET osName_match ==
            FindAllLists(description,
                         "Note that this field cannot be set when spec?os?name is~",
                         TRUE, ".", 1)
        G == {n \in 1..Len(os_name_groups) :
                 Contains(feature_key, os_name_groups[n] \o "_")}
        g == os_name_groups[Min(G)]
        feature_without0 == SubSeq(feature_key, 1, Find(feature_key, g, 1) + Len(g) - 1)
    IN  IF osName_match = <<>> THEN ""
        ELSE IF G # {}
        THEN feature_without0 \o "_os_name_" \o osName_match[1] \o " => !" \o feature_key
        ELSE IF AnyIn(feature_key, list_anothers)
        THEN "io_k8s_api_core_v1_PodSpec_os_name_" \o osName_match[1] \o " => !"
                \o feature_key
        ELSE ""

operator_is_pattern01 ==
    <<Lit("If the operator is"), Blank1, Word, Blank1, Lit("or"), Blank1, Word>>
operator_if_pattern02 == <<Lit("If the operator is"), Blank1, Word>>

extract_constraints_operator_raises(description, feature_key) ==
    LET operator_match01 == FindAll(description, operator_is_pattern01, TRUE, 1)
    IN  IF operator_match01 # <<>> /\ ~Contains(description, "is Exists,")
        THEN \/ Len(operator_match01) < 2
             \/ /\ Contains(description, "the operator is Gt or Lt")
                /\ Len(operator_match01) < 3
        ELSE /\ Contains(description, "is Exists")
             /\ Search(description, operator_if_pattern02, FALSE) = <<>>

extract_constraints_operator(description, feature_key) ==
    LET fw == feature_without_lastProperty(feature_key) \o "_operator_"
        m == FindAll(description, operator_is_pattern01, TRUE, 1)
    IN  IF m # <<>> /\ ~Contains(description, "is Exists,")
        THEN "(" \o fw \o m[1][1] \o " | " \o fw \o m[1][2] \o " => " \o feature_key
                \o ") | (" \o fw \o m[2][1] \o " |" \o fw \o m[2][2] \o " => !"
                \o feature_key \o ")"
                \o (IF Contains(description, "the operator is Gt or Lt")
                    THEN "| (" \o fw \o m[3][1] \o " |" \o fw \o m[3][2] \o " => "
                            \o feature_key \o ")"
                    ELSE "")
        ELSE IF Contains(description, "is Exists")
        THEN fw \o Search(description, operator_if_pattern02, FALSE)[1] \o " => !"
                \o feature_key
        ELSE ""

extract_constraints_least_one(description, feature_key) ==
    LET fw == feature_without_lastProperty(feature_key)
        a_least_match01 ==
            Search(description,
                   <<Lit("a least one of~"), Word, Blank1, Lit("or"), Blank1, Word>>, TRUE)
        ticked(word) == <<Lit(BQ), Word, Lit(BQ), Blank1, Lit(word), Blank1,
                          Lit(BQ), Word, Lit(BQ)>>
        exactly_match01 ==
            Search(description, <<Lit("Exactly one of~")>> \o ticked("or"), TRUE)
        at_least_match01 ==
            Search(description, <<Lit("At least one of~")>> \o ticked("and"), TRUE)
        either(m) == fw \o " => " \o fw \o "_" \o m[1] \o " | " \o fw \o "_" \o m[2]
    IN  IF a_least_match01 # <<>> THEN either(a_least_match01)
        ELSE IF exactly_match01 # <<>>
        THEN fw \o " => (" \o fw \o "_" \o exactly_match01[1] \o " | " \o fw \o "_"
                \o exactly_match01[2] \o ") & !(" \o fw \o "_" \o exactly_match01[1]
                \o " & " \o fw \o "_" \o exactly_match01[2] \o ")"
        ELSE IF at_least_match01 # <<>> THEN either(at_least_match01)
        ELSE ""

extract_constraints_primary_or(description, feature_key) ==
    LET fw == feature_without_lastProperty(feature_key)
        xor(other) == fw \o " => (" \o feature_key \o " | " \o fw \o other \o ") & !("
                         \o feature_key \o " & " \o fw \o other \o ")"
    IN  IF Contains(description, "non-resource access request")
        THEN xor("_resourceAttributes")
        ELSE IF Contains(description, "succeededIndexes specifies")
        THEN fw \o " => " \o feature_key \o " | " \o fw \o "_succeededCount"
        ELSE IF Contains(description, "Represents the requirement on the container")
        THEN xor("_onPodConditions")
        ELSE IF Contains(description,
                         "ResourceClaim object in the same namespace as this pod")
        THEN xor("_resourceClaimTemplateName")
        ELSE IF Contains(description, "datasetUUID is") THEN xor("_datasetName")
        ELSE ""

extract_constraints_multiple_conditions_raises(description, feature_key) ==
    /\ Contains(description, "conditions may not be")
    /\ \/ Search(description,
                 <<Lit("conditions may not be~")>> \o quoted_letters
                 \o <<Blank1, Lit("or"), Blank1>> \o quoted_letters, FALSE) = <<>>
       \/ Len(FindAllWords(description, <<"Approved", "Denied", "Failed">>, 1)) < 3

extract_constraints_multiple_conditions(description, feature_key) ==
    LET fw == feature_without_lastProperty(feature_key)
        type_match ==
            Search(description,
                   <<Lit("conditions may not be~")>> \o quoted_letters
                   \o <<Blank1, Lit("or"), Blank1>> \o quoted_letters, FALSE)
        types_notbe == "!" \o feature_key \o "_" \o type_match[1] \o " & !"
                           \o feature_key \o "_" \o type_match[2]
        conditions_match == FindAllWords(description, <<"Approved", "Denied", "Failed">>, 1)
        container_state01 == fw \o "_running"
        container_state02 == fw \o "_terminated"
        action_lifecycle_exec == fw \o "_exec"
        action_lifecycle_httpGet == fw \o "_httpGet"
        action_lifecycle_sleep == fw \o "_sleep"
        uvl_rule ==
            IF Contains(description, "conditions may not be")
            THEN fw \o " => (" \o fw \o "_type_" \o conditions_match[1] \o " | "
                    \o fw \o "_type_" \o conditions_match[2] \o " | "
                    \o fw \o "_type_" \o conditions_match[3] \o ") => " \o types_notbe
            ELSE IF Contains(description, "Details about a waiting")
            THEN fw \o " => (" \o feature_key \o " => !" \o container_state01 \o " & !"
                    \o container_state02 \o ")"
                    \o " & (" \o container_state01 \o " => !" \o feature_key \o " & !"
                    \o container_state02 \o ")"
                    \o " & (" \o container_state02 \o " => !" \o feature_key \o " & !"
                    \o container_state01 \o ")"
                    \o "& (!" \o container_state01 \o " & !" \o container_state02
                    \o " => " \o feature_key \o ")"
            ELSE IF Contains(description, "TCPSocket is NOT")
            THEN fw \o " => (" \o action_lifecycle_exec \o " | "
                    \o action_lifecycle_httpGet \o " | " \o action_lifecycle_sleep \o ")"
                    \o " & !(" \o action_lifecycle_exec \o " & "
                    \o action_lifecycle_httpGet \o ")"
                    \o " & !(" \o action_lifecycle_exec \o " & "
                    \o action_lifecycle_sleep \o ")"
                    \o " & !(" \o action_lifecycle_httpGet \o " & "
                    \o action_lifecycle_sleep \o ")"
                    \o " & !" \o feature_key
            ELSE ""
    IN  Strip(uvl_rule)

template_spec_policy_pattern01 ==
    <<Lit("The only allowed template?spec?restartPolicy value is~")>> \o quoted_letters

\* the raises without the test of the number of quoted values
extract_constraints_template_onlyAllowed_lenient(description, feature_key) ==
    IF Contains(description, "value is")
    THEN Search(description, template_spec_policy_pattern01, TRUE) = <<>>
    ELSE ~Contains(description, "values are")

extract_constraints_template_onlyAllowed_raises(description, feature_key) ==
    IF Contains(description, "value is")
    THEN Search(description, template_spec_policy_pattern01, TRUE) = <<>>
    ELSE IF Contains(description, "values are")
    THEN Len(FindAll(description, quoted_letters, FALSE, 1)) < 2
    ELSE TRUE

extract_constraints_template_onlyAllowed(description, feature_key) ==
    LET feature_with_spec == feature_key \o "_spec_restartPolicy"
        policy_match == Search(description, template_spec_policy_pattern01, TRUE)
        policies_match == FindAll(description, quoted_letters, FALSE, 1)
        allowed_policies ==
            [n \in 1..Len(policies_match) |-> feature_with_spec \o "_" \o policies_match[n][1]]
    IN  IF Contains(description, "value is")
        THEN "(" \o feature_with_spec \o "_" \o policy_match[1] \o " => " \o feature_key
                \o ") & (!" \o feature_with_spec \o "_Never) & (!" \o feature_with_spec
                \o "_OnFailure)"
        ELSE "(" \o Join(allowed_policies, " | ") \o "  => " \o feature_key \o ") & (!"
                \o feature_with_spec \o "_Always)"

extract_constraints_string_oneOf(description, feature_key) ==
    LET fw == feature_without_lastProperty(feature_key)
        group == fw \o "_group"
        serviceAccount == fw \o "_serviceAccount"
        user == fw \o "_user"
    IN  IF Contains(description, "indicates which one of")
        THEN "(" \o feature_key \o " == 'Group' => " \o group \o ")"
                \o " | (" \o feature_key \o " == 'ServiceAccount' => " \o serviceAccount \o ")"
                \o " | (" \o feature_key \o " == 'User' => " \o user \o ")"
                \o " & !(" \o group \o " & " \o serviceAccount \o ")"
                \o " & !(" \o serviceAccount \o " & " \o user \o ")"
                \o " & !(" \o group \o " & " \o user \o ")"
        ELSE ""

(***************************************************************************)
(* convert_to_uvl_constraints: the elif chains as the number of the first  *)
(* branch whose condition holds, 0 when none does (uvl_rule stays None).   *)
(***************************************************************************)
boolean_triggers(description) ==
    <<Contains(description, "Number must be in the range"),
      Contains(description, "required when") \/ Contains(description, "Required when"),
      AnyIn(description, <<"only if type", "Must be set if type is",
                           "must be non-empty if and only if", "field MUST be empty if",
                           "may be non-empty only if">>),
      Contains(description,
               "selector can be used to match multiple param objects based on their labels"),
      Contains(description, "Note that this field cannot be"),
      Contains(description, "If the operator is"),
      AnyIn(description, <<"a least one of", "Exactly one of", "At least one of">>),
      AnyIn(description, <<"resource access request", "succeededIndexes specifies",
                           "Represents the requirement on the container",
                           "ResourceClaim object in the same namespace as this pod",
                           "datasetUUID is">>),
      AnyIn(description, <<"conditions may not be", "Details about a waiting",
                           "TCPSocket is NOT">>),
      Contains(description, "template.spec.restartPolicy")>>

bound_triggers(b, description) ==
    <<b.is_port_number,
      b.min_bound # NoBound /\ b.max_bound # NoBound,
      b.min_bound # NoBound,
      b.max_bound # NoBound,
      AnyIn(description, <<"Minimum value is", "Value must be non-negative",
                           "minimum valid value for", "in the range">>)>>

integer_triggers(description) == bound_triggers(extract_bounds(description), description)

string_triggers(description) ==
    <<Contains(description, "conditions may not be"),
      Contains(description, "indicates which one of")>>

\* a chain in which the last condition that holds decides
first_branch_last(triggers) ==
    LET T == {n \in 1..Len(triggers) : triggers[n]}
    IN  IF T = {} THEN 0 ELSE Max(T)

\* the first branch of an if/elif chain whose condition holds
first_branch(triggers) ==
    LET T == {n \in 1..Len(triggers) : triggers[n]}
    IN  IF T = {} THEN 0 ELSE Min(T)

type_family(type_data) ==
    IF type_data \in {"Boolean", "boolean"} THEN "Boolean"
    ELSE IF type_data \in {"Integer", "integer"} THEN "Integer"
    ELSE IF type_data \in {"", "string"} THEN "String"
    ELSE "other"

branch_of(description, type_data) ==
    CASE type_family(type_data) = "Boolean" -> first_branch(boolean_triggers(description))
      [] type_family(type_data) = "Integer" -> first_branch(integer_triggers(description))
      [] type_family(type_data) = "String" -> first_branch(string_triggers(description))
      [] OTHER -> 0

boolean_rule(n, description, feature_key) ==
    CASE n = 1 -> feature_without_lastProperty(feature_key) \o " => (" \o feature_key
                     \o "_asInteger > 1 & " \o feature_key \o "_asInteger < 65535) | ("
                     \o feature_key \o "_asString == 'IANA_SVC_NAME')"
      [] n = 2 -> extract_constraints_required_when(description, feature_key)
      [] n = 3 -> extract_constraints_if(description, feature_key)
      [] n = 4 -> extract_constraints_mutualy_exclusive(description, feature_key)
      [] n = 5 -> extract_constraints_os_name(description, feature_key)
      [] n = 6 -> extract_constraints_operator(description, feature_key)
      [] n = 7 -> extract_constraints_least_one(description, feature_key)
      [] n = 8 -> extract_constraints_primary_or(description, feature_key)
      [] n = 9 -> extract_constraints_multiple_conditions(description, feature_key)
      [] n = 10 -> extract_constraints_template_onlyAllowed(description, feature_key)

boolean_raises(n, description, feature_key) ==
    CASE n = 3 -> extract_constraints_if_raises(description, feature_key)
      [] n = 4 -> extract_constraints_mutualy_exclusive_raises(description, feature_key)
      [] n = 6 -> extract_constraints_operator_raises(description, feature_key)
      [] n = 9 -> extract_constraints_multiple_conditions_raises(description, feature_key)
      [] n = 10 -> extract_constraints_template_onlyAllowed_raises(description, feature_key)
      [] OTHER -> FALSE

bound_rule(n, min_bound, max_bound, description, feature_key) ==
    CASE n \in {1, 2} -> feature_key \o " > " \o StrOf(min_bound) \o " & "
                            \o feature_key \o " < " \o StrOf(max_bound)
      [] n = 3 -> feature_key \o " > " \o StrOf(min_bound)
      [] n = 4 -> feature_key \o " < " \o StrOf(max_bound)
      [] n = 5 -> extract_minimum_value(description, feature_key)

\* a port number left without the bounds of the ports
port_bounds_kept(n, b) == [min_bound |-> b.min_bound, max_bound |-> b.max_bound]

\* a port number without a bound of its own takes the bounds of the ports
port_bounds(n, b) ==
    [min_bound |-> IF n = 1 /\ b.min_bound = NoBound THEN 1 ELSE b.min_bound,
     max_bound |-> IF n = 1 /\ b.max_bound = NoBound THEN 65535 ELSE b.max_bound]

bounded_rule(n, b, description, feature_key) ==
    bound_rule(n, b.min_bound, b.max_bound, description, feature_key)

integer_rule(n, description, feature_key) ==
    bounded_rule(n, port_bounds(n, extract_bounds(description)), description, feature_key)

string_rule(n, description, feature_key) ==
    IF n = 1 THEN extract_constraints_multiple_conditions(description, feature_key)
    ELSE extract_constraints_string_oneOf(description, feature_key)

convert_raises(family, n, feature_key, description) ==
    \/ family = "Boolean" /\ n # 0 /\ boolean_raises(n, description, feature_key)
    \/ /\ family = "String" /\ n = 1
       /\ extract_constraints_multiple_conditions_raises(description, feature_key)

convert_outcome(family, n, raised, feature_key, description) ==
    IF raised THEN [raised |-> TRUE, none |-> FALSE, rule |-> ""]
    ELSE IF n = 0 THEN [raised |-> FALSE, none |-> TRUE, rule |-> ""]
    ELSE [raised |-> FALSE, none |-> FALSE,
          rule |-> IF family = "Boolean" THEN boolean_rule(n, description, feature_key)
                   ELSE IF family = "Integer"
                   THEN integer_rule(n, description, feature_key)
                   ELSE string_rule(n, description, feature_key)]

convert_branch(family, n, feature_key, description) ==
    convert_outcome(family, n, convert_raises(family, n, feature_key, description),
                    feature_key, description)

\* the outcome of one call: raised (an exception leaves the function),
\* none (uvl_rule is None, the record is counted) or the rule returned
convert_to_uvl_constraints(feature_key, description, type_data) ==
    convert_branch(type_family(type_data), branch_of(description, type_data),
                   feature_key, description)

(***************************************************************************)
(* The second half of the script: generar_constraintsDef and the append    *)
(* of the constraints section.                                             *)
(***************************************************************************)
generation_vars == <<definitions, processor_vars, local_stack_refs, frames, schema_idx,
                     uvl_output, last, skipped_refs, feature_paths>>

\* generar_constraintsDef: one iteration of the loop over features['restrictions'].
\* No handler of the script catches an exception of convert_to_uvl_constraints:
\* it leaves generar_constraintsDef and ends the script.
ConvertRecord ==
    /\ pc = "constraints"
    /\ rec_idx < Len(descriptions_file.restrictions)
    /\ \E restriction \in {descriptions_file.restrictions[rec_idx + 1]} :
       \E r \in {convert_to_uvl_constraints(restriction.feature_name,
                                            restriction.description,
                                            restriction.type_data)} :
           /\ conv' = [feature_name |-> restriction.feature_name,
                       description |-> restriction.description,
                       type_data |-> restriction.type_data,
                       raised |-> r.raised, none |-> r.none, rule |-> r.rule]
           /\ IF r.raised
              THEN /\ pc' = "aborted"
                   /\ UNCHANGED <<uvl_rules, rec_idx, count>>
              ELSE /\ rec_idx' = rec_idx + 1
                   /\ count' = IF r.none THEN count + 1 ELSE count
                   /\ uvl_rules' = IF r.rule # "" THEN Append(uvl_rules, r.rule)
                                   ELSE uvl_rules
                   /\ pc' = pc
    /\ UNCHANGED <<generation_vars, output_file, descriptions_file, run, first_output>>

constraints_section(restrictions) ==
    "constraints\n"
    \o Join([n \in 1..Len(restrictions) |-> "\t" \o restrictions[n] \o "\n"], "")

\* the end of the script: the constraints section is appended to the .uvl file
AppendConstraints ==
    /\ pc = "constraints"
    /\ rec_idx = Len(descriptions_file.restrictions)
    /\ output_file' = output_file \o constraints_section(uvl_rules)
    /\ pc' = "done"
    /\ UNCHANGED <<generation_vars, descriptions_file, synth_vars, run, first_output>>

Done == pc \in {"done", "aborted"}

Next ==
    \/ CallParse
    \/ Step
    \/ Return
    \/ EmitDefinition
    \/ SaveModel
    \/ ConvertRecord
    \/ AppendConstraints

Spec == Init /\ [][Next]_vars

\* Step can be taken: its guard, the call stack below its cap
StepReady ==
    /\ pc = "generate"
    /\ frames # <<>>
    /\ Last(frames).wait = ""
    /\ Last(frames).idx <= Len(Last(frames).properties)
    /\ Len(frames) < MaxDepth

\* EmitDefinition can be taken: its guard
EmitReady ==
    /\ pc = "generate"
    /\ Len(frames) = 1
    /\ frames[1].idx > Len(frames[1].properties)

\* ConvertRecord can be taken: its guard
ConvertReady ==
    /\ pc = "constraints"
    /\ rec_idx < Len(descriptions_file.restrictions)

\* the interpreter runs the script one statement after the other: a step that
\* can be taken is taken.  The weak fairness of Step, of EmitDefinition and of
\* ConvertRecord is written with the condition under which each can be taken.
Fairness ==
    /\ WF_vars(CallParse)
    /\ WF_vars(Return)
    /\ ([]<>(~EmitReady) \/ []<><<EmitDefinition>>_vars)
    /\ WF_vars(SaveModel)
    /\ WF_vars(AppendConstraints)
    /\ ([]<>(~StepReady) \/ []<><<Step>>_vars)
    /\ ([]<>(~ConvertReady) \/ []<><<ConvertRecord>>_vars)

\* the script runs to its end
LiveSpec == Init /\ [][Next]_vars /\ Fairness

\* the script is run again on the same definitions file, in a new process
Rerun ==
    /\ pc = "done"
    /\ run = 1
    /\ run' = 2
    /\ first_output' = output_file
    /\ resolved_references' = <<>>
    /\ processed_features' = {}
    /\ seen_descriptions' = {}
    /\ descriptions' = EmptyDescriptions
    /\ is_cardinality' = FALSE
    /\ is_deprecated' = FALSE
    /\ feature_aux_original_type' = ""
    /\ local_stack_refs' = <<>>
    /\ frames' = <<>>
    /\ schema_idx' = 0
    /\ uvl_output' = uvl_header
    /\ uvl_rules' = <<>>
    /\ rec_idx' = 0
    /\ count' = 0
    /\ conv' = NoConv
    /\ pc' = "generate"
    /\ last' = Event("init", NoCur)
    /\ skipped_refs' = {}
    /\ feature_paths' = <<>>
    /\ UNCHANGED <<definitions, output_file, descriptions_file>>

\* the script run on a document whose descriptions state constraints
SynthInit == InitOf(ConstraintDocuments)

SynthSpec == SynthInit /\ [][Next]_vars

TwoRunNext == Next \/ Rerun

TwoRunSpec == Init /\ [][TwoRunNext]_vars

(***************************************************************************)
(* Properties of the generation run.                                       *)
(***************************************************************************)
NoRepeat(stack) == \A i, j \in 1..Len(stack) : i # j => stack[i] # stack[j]

\* the pointers written in a list of properties
RECURSIVE prop_pointers(_)
prop_pointers(props) ==
    IF props = <<>> THEN {}
    ELSE ({pointer_of(Head(props))} \ {""})
         \cup prop_pointers(Head(props).properties)
         \cup prop_pointers(Tail(props))

document_pointers ==
    UNION {prop_pointers(definitions[i].schema.properties) : i \in 1..Len(definitions)}

\* the cap on the call stack is never what stops a call
DepthWithinCap == Len(frames) < MaxDepth

\* the stack of visited pointers holds a pointer once, so it is no deeper
\* than the document has pointers
StackBounded ==
    /\ NoRepeat(local_stack_refs)
    /\ Len(local_stack_refs) <= Cardinality(document_pointers)
    /\ DepthWithinCap

\* C1: for every document, also one whose definitions reference themselves
\* directly or through a chain, a pointer on the visited stack of the branch
\* is never pushed again, the recursion is no deeper than the number of
\* distinct pointers, and the run ends.
GenerationTerminates == [](StackBounded) /\ <>Done

\* a run that met a cycle has ended
CyclicRunEnded == pc = "done" /\ skipped_refs # {}

\* the pointers of the calls the current call is nested in
AncestorPtrs ==
    {frames[i].cur.ptr : i \in {j \in 1..Len(frames) : frames[j].wait \in {"ref", "items", "addl"}}}

\* C2: a property is skipped by the cycle guard only when its pointer is on
\* its own chain of ancestors, the loop then goes on with the next property
\* of the same schema, and a reference made on another branch is expanded
\* with all the properties of the definition.
OnlyCyclicOccurrenceSkipped ==
    /\ last.kind = "cycle" =>
          /\ last.ptr \in AncestorPtrs
          /\ Last(frames).wait = ""
          /\ Last(frames).idx > 1
          /\ pointer_of(Last(frames).properties[Last(frames).idx - 1]) = last.ptr
    /\ (last.kind = "call" /\ frames[Len(frames) - 1].wait # "nested") =>
          /\ last.ptr \notin Range(pop(local_stack_refs))
          /\ Last(frames).idx = 1
          /\ Last(frames).properties =
                resolve_reference(definitions, <<>>, last.ptr).properties

\* a definition skipped on one branch is expanded on another
SkippedPointerExpandedElsewhere ==
    /\ last.kind = "call"
    /\ frames[Len(frames) - 1].wait # "nested"
    /\ last.ptr \in skipped_refs

\* C3: every qualified path of the feature tree appears once.
NoDuplicatePaths == NoRepeat(feature_paths)

\* C4: the key recorded in the processed set is the key the skip test looks up.
RecordedKeyIsLookedUp == last.kind = "emit" => last.recorded = last.key

\* C5: a second run on the same document writes the same file.
RerunIdentical == (run = 2 /\ pc = "done") => output_file = first_output

\* the pointer resolves to nothing in the document
Dangling(ptr) == ptr # "" /\ resolve_reference(definitions, <<>>, ptr) = None

\* C6: a property whose reference does not resolve is emitted as a node
\* without children, the loop goes on with the next property, and every
\* definition of the document is written to the model.
UnresolvedReferenceIsLeaf ==
    /\ (last.kind = "emit" /\ Dangling(last.ptr)) =>
          /\ last.feature.sub_features = <<>>
          /\ last.recorded \in processed_features
          /\ Last(frames).optional_features # <<>>
          /\ Last(Last(frames).optional_features) = last.feature
    /\ pc = "generate" \/ \A i \in 1..Len(definitions) :
          sanitize_name(definitions[i].name) \in Range(feature_paths)

\* the node of a property whose reference does not resolve is emitted
UnresolvedReferenceEmitted == last.kind = "emit" /\ Dangling(last.ptr)

(***************************************************************************)
(* Properties of the constraint synthesis.                                 *)
(***************************************************************************)
\* C7: the failure of one record loses the constraint of that record alone:
\* every record is processed and the constraints section is written.
FailureLosesOneRecord ==
    Done =>
        /\ pc = "done"
        /\ rec_idx = Len(descriptions_file.restrictions)
        /\ EndsWith(output_file, constraints_section(uvl_rules))

\* the outcome of the handler of branch n of the family
handler_outcome(family, n, d, F) ==
    IF family = "Boolean"
    THEN IF boolean_raises(n, d, F) THEN conv.raised
         ELSE ~conv.raised /\ conv.rule = boolean_rule(n, d, F)
    ELSE ~conv.raised /\ conv.rule = integer_rule(n, d, F)

\* among the triggers, n is the first that holds
first_of(triggers, n) ==
    triggers[n] /\ \A m \in 1..(n - 1) : ~triggers[m]

\* C8: a record yields at most one constraint, the one of the first trigger
\* of the order of its type that its description holds.
FirstTriggerWins ==
    /\ Len(uvl_rules) <= rec_idx
    /\ type_family(conv.type_data) = "Boolean" =>
          \A n \in 1..10 : first_of(boolean_triggers(conv.description), n) =>
              handler_outcome("Boolean", n, conv.description, conv.feature_name)
    /\ type_family(conv.type_data) = "Integer" =>
          \A n \in 1..5 : first_of(integer_triggers(conv.description), n) =>
              handler_outcome("Integer", n, conv.description, conv.feature_name)

\* the number of triggers that hold
holding(triggers) == Cardinality({n \in 1..Len(triggers) : triggers[n]})

\* a record with several triggers was converted to a constraint
SeveralTriggersConverted ==
    /\ conv.rule # ""
    /\ \/ /\ type_family(conv.type_data) = "Boolean"
          /\ holding(boolean_triggers(conv.description)) > 1
       \/ /\ type_family(conv.type_data) = "Integer"
          /\ conv.description = greater_minimum_text(0, 10)

\* the rule is the one of the last record and is in the list
Emitted(rule) ==
    /\ conv.rule = rule
    /\ uvl_rules # <<>>
    /\ Last(uvl_rules) = rule

\* C9: a Boolean record on F whose description reads
\* Required when P is set to "V" yields parent_P_V => F.
RequiredWhenSynthesised ==
    \A P \in {"strategy"}, V \in {"Webhook"} :
        (conv.type_data = "Boolean" /\ conv.description = required_when_text(P, V)) =>
            Emitted(feature_without_lastProperty(conv.feature_name) \o "_" \o P \o "_" \o V
                        \o " => " \o conv.feature_name)

greater(F, n) == F \o " > " \o ToString(n)
less(F, n) == F \o " < " \o ToString(n)
between(F, a, b) == greater(F, a) \o " & " \o less(F, b)

\* C10: an Integer record on F yields F > N for a minimum value N,
\* F > A & F < B for a value between A and B, F < N+1 for a value less than
\* or equal to N, and for a port number the bounds of its description, 1 and
\* 65535 where it gives none.
IntegerBoundsSynthesised ==
    type_family(conv.type_data) = "Integer" =>
        \A a, b \in Nums \cup {100} :
            /\ conv.description = minimum_text(a) => Emitted(greater(conv.feature_name, a))
            /\ conv.description = between_text(a, b) => Emitted(between(conv.feature_name, a, b))
            /\ conv.description = less_equal_text(a) => Emitted(less(conv.feature_name, a + 1))
            /\ conv.description = port_text => Emitted(between(conv.feature_name, 1, 65535))
            /\ conv.description = port_upto_text(a) =>
                  Emitted(between(conv.feature_name, 1, a + 1))
            /\ conv.description = port_range_text(a, b) =>
                  Emitted(between(conv.feature_name, a, b))

\* a port number without bounds of its own was converted
PortNumberConverted ==
    /\ type_family(conv.type_data) = "Integer"
    /\ conv.description = port_text
    /\ conv.rule # ""

\* the qualified name matches a boolean-keyword override: a keyword of the
\* list or one of the two suffix expressions
keyword_override(full_name) ==
    AnyIn(full_name, boolean_keywords) \/ SearchKeywordRegex(full_name)

\* C11: a property declared a string whose qualified name matches a
\* boolean-keyword override and whose description gives no values becomes an
\* untyped (Boolean) node with exactly one child, the mandatory String node
\* <qualified name>_nameStr, whatever its description, the empty one included.
KeywordStringGetsNameStr ==
    (/\ last.kind = "emit"
     /\ last.type = "string"
     /\ keyword_override(last.key)
     /\ extracted_values_of[last.feature.description] = {})
    => /\ last.feature.type_data = ""
       /\ Len(last.feature.sub_features) = 1
       /\ last.feature.sub_features[1].type = "mandatory"
       /\ last.feature.sub_features[1].type_data = "String"
       /\ path_of(last.feature.sub_features[1].name) = last.key \o "_nameStr"

\* the distinct candidate values of a description, normalised
candidates(description) == Range(value_list(description))

\* the alternative children a feature got from the values of its description
value_nodes(feature) ==
    SelectSeq(feature.sub_features,
              LAMBDA f : f.type = "alternative"
                         /\ StartsAt(f.description, 1, "Specific value: "))

\* C12: a description that gives no candidate value, or exactly one distinct
\* candidate after normalisation, gives no value set, and the node of its
\* property gets no alternative child for a value.
SingleCandidateGivesNoValues ==
    (last.kind = "emit" /\ Cardinality(candidates(last.feature.description)) <= 1)
    => /\ extract_values(last.feature.description) = {}
       /\ value_nodes(last.feature) = <<>>

\* a property whose description names one value, twice, was emitted
SingleCandidateEmitted ==
    /\ last.kind = "emit"
    /\ Len(value_list(last.feature.description)) = 2
    /\ Cardinality(candidates(last.feature.description)) = 1

\* the values without the mark of the default
unmarked(values) == {Replace(v, " {default}", "") : v \in values}

service_types == {"NodePort", "ClusterIP", "None", "LoadBalancer", "ExternalName"}

\* C13: when the values of a description are exactly NodePort, ClusterIP,
\* None, LoadBalancer and ExternalName, extract_values returns the four
\* values other than None, whether or not one of them carries the mark
\* {default}.
ServiceTypesWithoutNone ==
    (last.kind = "emit"
     /\ unmarked(candidates(last.feature.description)) = service_types)
    => unmarked(extract_values(last.feature.description)) = service_types \ {"None"}

\* the records stored for a feature path and a description
records_of(feature_name, description) ==
    {i \in 1..Len(descriptions.restrictions) :
        /\ descriptions.restrictions[i].feature_name = feature_name
        /\ descriptions.restrictions[i].description = description}

\* C14: no record is stored for a description shorter than 10 characters, and
\* a description of 10 characters or more that contains a phrase of the
\* catalogue is stored for the feature path it is first seen with, whatever
\* the length of that path.
ThresholdOnDescriptionText ==
    /\ \A i \in 1..Len(descriptions.restrictions) :
           Len(descriptions.restrictions[i].description) >= 10
    /\ (/\ last.kind = "emit"
        /\ Len(last.feature.description) >= 10
        /\ category_of(last.feature.description) # "")
       => records_of(path_of(last.feature.name), last.feature.description) # {}

\* every stored record, the three categories together
stored_records ==
    descriptions.values \o descriptions.restrictions \o descriptions.dependencies

\* C15: after any sequence of calls of categorize_description the stored
\* records hold no two entries with the same feature path and the same
\* description.
NoRepeatedRecord ==
    \A i, j \in 1..Len(stored_records) :
        (/\ stored_records[i].feature_name = stored_records[j].feature_name
         /\ stored_records[i].description = stored_records[j].description) => i = j

\* C16: the lists 'values' and 'dependencies' stay empty, in the processor
\* and in the file it writes: every stored record is in 'restrictions'.
OnlyRestrictionsStored ==
    /\ descriptions.values = <<>>
    /\ descriptions.dependencies = <<>>
    /\ descriptions_file.values = <<>>
    /\ descriptions_file.dependencies = <<>>

\* the description made of a line break went through the patterns, and a
\* record is stored
LineBreakCategorized ==
    /\ descriptions.restrictions # <<>>
    /\ \E k \in seen_descriptions : StartsAt(k, 1, DescLineBreak \o ":")

\* the phrases that send an integer record to extract_minimum_value
minimum_phrases == <<"Minimum value is", "minimum valid value for", "in the range">>

\* one of the numeric patterns of extract_minimum_value is found
numeric_match(description) ==
    \/ Search(description, <<Lit("Minimum value is~"), Digits>>, FALSE) # <<>>
    \/ Search(description,
              <<Lit("minimum valid value for expirationSeconds is~"), Digits>>, FALSE) # <<>>
    \/ Search(description, <<Lit("in the range~"), Digits, Lit("-"), Digits>>, FALSE) # <<>>

\* extract_minimum_value was called for the record of conv
minimum_called ==
    /\ type_family(conv.type_data) = "Integer"
    /\ branch_of(conv.description, conv.type_data) = 5

\* C17: extract_minimum_value raises when the description holds one of its
\* trigger phrases and none of its numeric patterns is found; it never
\* returns an empty constraint then.
MinimumWithoutNumberRaises ==
    (/\ minimum_called
     /\ AnyIn(conv.description, minimum_phrases)
     /\ ~Contains(conv.description, "Value must be non-negative")
     /\ ~numeric_match(conv.description))
    => conv.raised /\ pc = "aborted"

\* extract_constraints_template_onlyAllowed was called for the record of conv
template_called ==
    /\ type_family(conv.type_data) = "Boolean"
    /\ branch_of(conv.description, conv.type_data) = 10

\* the body of a description of template.spec.restartPolicy cannot be parsed:
\* 'value is' without the one quoted value after the phrase, 'values are'
\* with fewer than two quoted values, or neither phrase
unparsable_policy(description) ==
    IF Contains(description, "value is")
    THEN Search(description,
                <<Lit("The only allowed template?spec?restartPolicy value is~"),
                  Lit(DQ), Letters, Lit(DQ)>>, TRUE) = <<>>
    ELSE IF Contains(description, "values are")
    THEN Len(FindAll(description, <<Lit(DQ), Letters, Lit(DQ)>>, FALSE, 1)) < 2
    ELSE TRUE

EveryRecordConvertedOrCounted ==
    pc = "done" => Len(uvl_rules) + count = Len(descriptions_file.restrictions)

\* C20: a node is mandatory exactly when the name of its property is in the
\* `required` list of the schema that declares it or its description, trimmed,
\* ends with 'Required.', for a schema reached through $ref, items.$ref or
\* additionalProperties.$ref alike.
MandatoryIffRequired ==
    last.kind = "emit" =>
        (last.feature.type = "mandatory"
            <=> (\/ last.declared_required
                 \/ is_required_based_on_description(last.feature.description)))

\* the kinds a JSON schema gives a property or an option; "" stands for
\* the absent kind
raw_kinds == {"", "array", "object", "number", "integer", "string", "boolean"}

\* the value types of the nodes of a list of features, children included
RECURSIVE node_types(_)
node_types(feature_list) ==
    IF feature_list = <<>> THEN {}
    ELSE {Head(feature_list).type_data}
         \cup node_types(Head(feature_list).sub_features)
         \cup node_types(Tail(feature_list))

\* the value type a node is serialized with: "" is Boolean
value_type(type_data) ==
    IF type_data = "" \/ Capitalize(type_data) = "Boolean" THEN "" ELSE Capitalize(type_data)

\* C21: array and object are normalised to Boolean with the cardinality flag
\* set, number to Integer, an absent kind and boolean to Boolean; whatever the
\* kind of a property or of a oneOf option, the value type of an emitted node
\* is Boolean (no prefix), Integer or String.
ValueTypeIsOneOfThree ==
    /\ \A k \in {"array", "object"} :
           /\ value_type(sanitize_type_data(k)) = ""
           /\ sanitize_type_data_cardinality(k, FALSE)
    /\ value_type(sanitize_type_data("number")) = "Integer"
    /\ value_type(sanitize_type_data("Boolean")) = ""
    /\ value_type(sanitize_type_data("boolean")) = ""
    /\ last.kind = "emit" =>
           \A t \in node_types(<<last.feature>>) : value_type(t) \in {"", "Integer", "String"}

\* the name a pointer ends with
pointer_name(ptr) == Last(Split(ptr, "/"))

pending_pushes ==
    SelectSeq(frames, LAMBDA f : f.wait \in {"ref", "items", "addl"})

\* C23: between two iterations of its loop, and so when it returns, a call of
\* parse_properties finds the stack of visited pointers as it was at its
\* entry: the pointer pushed for `$ref`, `items.$ref` or
\* `additionalProperties.$ref` is popped when the branch is left, also when
\* the pointer does not resolve, and a cycle skip leaves the stack alone. The
\* stack holds one pointer per call that is waiting in such a branch.
StackBalanced ==
    /\ frames # <<>> => local_stack_refs = Last(frames).entry
    /\ Len(local_stack_refs) = Len(pending_pushes)
    /\ \A i \in 1..Len(pending_pushes) : local_stack_refs[i] = pending_pushes[i].cur.ptr
    /\ frames = <<>> => local_stack_refs = <<>>

\* a call made under a pushed pointer returns after a cycle skip
ReturnedUnderPointer ==
    /\ frames # <<>>
    /\ Last(frames).entry # <<>>
    /\ Last(frames).idx > Len(Last(frames).properties)
    /\ last.kind = "cycle"

\* C24: a node whose description gave enumerated values has the untyped
\* Boolean value type and its children are exactly the alternative leaves of
\* the values, one per value: no child comes from a reference, an item type,
\* a map or the keyword override.
ValuesAreTheOnlyChildren ==
    (last.kind = "emit" /\ extract_values(last.feature.description) # {})
    => /\ last.feature.type_data = ""
       /\ value_nodes(last.feature) = last.feature.sub_features
       /\ Len(last.feature.sub_features)
             = Cardinality(extract_values(last.feature.description))
       /\ \A i \in 1..Len(last.feature.sub_features) :
             last.feature.sub_features[i].sub_features = <<>>

\* the annotation blocks of a node name: the cleaned text of a description
\* holds no brace, so each block is one opening brace
annotation_blocks(name) == Cardinality({i \in 1..Len(name) : At(name, i) = "{"})

\* the kind of the first annotation block of a node name
annotation_kind(name) ==
    IF Contains(name, " {default") THEN "default"
    ELSE IF Contains(name, " {abstract, doc '") THEN "abstract"
    ELSE IF Contains(name, " {deprecated, doc '") THEN "deprecated"
    ELSE IF Contains(name, " {doc '") THEN "doc"
    ELSE ""

\* C25: the node of a property with a description carries exactly one
\* annotation block, of one of the kinds default, abstract, deprecated and
\* doc-only, and the block is doc-only exactly when no default is detected
\* and the node is neither abstract nor deprecated.
ExactlyOneAnnotation ==
    (last.kind = "emit" /\ last.feature.description # "")
    => /\ annotation_blocks(last.feature.name) = 1
       /\ annotation_kind(last.feature.name) # ""
       /\ annotation_kind(last.feature.name) = "doc"
          <=> /\ ~process_enum_defaultInte(Prop(last.name, last.type,
                                                last.feature.description),
                                           path_of(last.key),
                                           last.feature.description)[2]
              /\ ~update_type_data(path_of(last.key), last.type,
                                   last.feature.description).abstract_bool
              /\ ~deprecated_description(clean_description(last.feature.description))

\* the lines of a text that ends every line with a line break
uvl_lines(text) == SubSeq(Split(text, "\n"), 1, Len(Split(text, "\n")) - 1)

\* the tabs a line starts with, and the line without them
indent_of(line) == Cardinality({i \in 1..Len(line) : \A j \in 1..i : At(line, j) = "\t"})

content_of(line) == From(line, indent_of(line) + 1)

headings == <<"mandatory", "optional", "alternative">>

\* the nodes of a list of features, children included
RECURSIVE tree_nodes(_)
tree_nodes(feature_list) ==
    IF feature_list = <<>> THEN <<>>
    ELSE <<Head(feature_list)>> \o tree_nodes(Head(feature_list).sub_features)
         \o tree_nodes(Tail(feature_list))

\* what the line of a node holds after its tabs
node_text(feature) == type_str(feature) \o feature.name

\* the contents of the lines of L written with n tabs
lines_at(L, n) ==
    [i \in 1..Len(SelectSeq(L, LAMBDA l : indent_of(l) = n)) |->
        content_of(SelectSeq(L, LAMBDA l : indent_of(l) = n)[i])]

\* L is the layout of the feature written with n tabs
Layout(L, feature, n, nodes) ==
    /\ L # <<>> /\ L[1] = Tabs(n) \o node_text(feature)
    \* one line per node, none dropped and none written twice
    /\ Len(SelectSeq(L, LAMBDA l : content_of(l) \notin Range(headings))) = Len(nodes)
    /\ \A k \in 1..Len(nodes) :
          Cardinality({i \in 1..Len(L) : content_of(L[i]) = node_text(nodes[k])})
             = Cardinality({j \in 1..Len(nodes) : node_text(nodes[j]) = node_text(nodes[k])})
    \* one heading per kind that has children, in the order of the kinds
    /\ lines_at(L, n + 1)
          = SelectSeq(headings, LAMBDA h : OfType(feature.sub_features, h) # <<>>)
    \* the children two levels below their parent, grouped by kind
    /\ lines_at(L, n + 2)
          = [i \in 1..Len(feature.sub_features) |->
                node_text((OfType(feature.sub_features, "mandatory")
                           \o OfType(feature.sub_features, "optional")
                           \o OfType(feature.sub_features, "alternative"))[i])]
    \* nodes and headings alternate level by level, a heading has a child
    \* on the next line, one level deeper
    /\ \A i \in 1..Len(L) :
          /\ indent_of(L[i]) >= n
          /\ content_of(L[i]) \in Range(headings) <=> (indent_of(L[i]) - n) % 2 = 1
          /\ content_of(L[i]) \in Range(headings)
                => i < Len(L) /\ indent_of(L[i + 1]) = indent_of(L[i]) + 1
          /\ i > 1 => indent_of(L[i]) <= indent_of(L[i - 1]) + 1

\* C26: properties_to_uvl writes one line per node and, under a node with
\* children, one heading per kind that has children, in the order mandatory,
\* optional, alternative; the headings are written one level deeper than the
\* node and the children two levels deeper; no node is dropped or written
\* twice.
OneLinePerNode ==
    last.kind = "emit"
    => \E L \in {uvl_lines(properties_to_uvl(<<last.feature>>, 5))} :
           Layout(L, last.feature, 5, tree_nodes(<<last.feature>>))

\* a node was written whose children are of two kinds and have children
NestedGroupsWritten ==
    /\ last.kind = "emit"
    /\ Cardinality({h \in Range(headings) : OfType(last.feature.sub_features, h) # <<>>}) = 2
    /\ \E i \in 1..Len(last.feature.sub_features) :
          last.feature.sub_features[i].sub_features # <<>>

\* the line properties_to_uvl writes for a node, without its tabs
node_line(feature) == uvl_lines(properties_to_uvl(<<feature>>, 0))[1]

\* C27: properties_to_uvl writes a type prefix exactly for the nodes whose
\* value type is not Boolean: every String and every Integer node, the
\* children _nameStr and _valueInt of an overridden feature included, is
\* written as `String <name>` or `Integer <name>`, every Boolean node as its
\* name alone.
PrefixIffTyped ==
    last.kind = "emit"
    => \A f \in Range(tree_nodes(<<last.feature>>)) :
          node_line(f) = (IF value_type(f.type_data) = "" THEN ""
                          ELSE value_type(f.type_data) \o " ") \o f.name

\* the nodes a call of parse_properties returns, as the children of one node
returned_nodes(fr) ==
    Feature("", "optional", "", fr.mandatory_features \o fr.optional_features, "")

\* property i of the call produced one of its nodes: a node has its
\* qualified name and no property before it has the same one
produced(fr, i) ==
    /\ \E k \in 1..Len(returned_nodes(fr).sub_features) :
          path_of(returned_nodes(fr).sub_features[k].name)
              = path_of(qualified_name(fr.parent, fr.properties[i].name))
    /\ \A j \in 1..(i - 1) :
          qualified_name(fr.parent, fr.properties[j].name)
              # qualified_name(fr.parent, fr.properties[i].name)

\* the line of the node of property i among the lines L of the call's nodes
line_of(L, fr, i) ==
    CHOOSE n \in 1..Len(L) :
        /\ indent_of(L[n]) = 2
        /\ \E k \in 1..Len(returned_nodes(fr).sub_features) :
              /\ path_of(returned_nodes(fr).sub_features[k].name)
                    = path_of(qualified_name(fr.parent, fr.properties[i].name))
              /\ content_of(L[n]) = node_text(returned_nodes(fr).sub_features[k])

\* C28: the nodes of the properties of one schema are written in the order
\* the schema declares the properties: when a is declared before b and both
\* produce a node, the line of a precedes the line of b.
DeclaredOrderPreserved ==
    (frames # <<>> /\ Last(frames).idx > Len(Last(frames).properties))
    => \E fr \in {Last(frames)} :
       \E L \in {uvl_lines(properties_to_uvl(<<returned_nodes(fr)>>, 0))} :
           \A i, j \in 1..Len(fr.properties) :
               (i < j /\ produced(fr, i) /\ produced(fr, j))
               => line_of(L, fr, i) < line_of(L, fr, j)

\* C29: the annotation of a node depends on the qualified name, the declared
\* type and the description of its own property only: the node of a property
\* without description carries no annotation block, whatever the properties
\* processed before it by the same call.
NoDescriptionNoAnnotation ==
    (last.kind = "emit" /\ last.feature.description = "")
    => /\ annotation_blocks(last.feature.name) = 0
       /\ last.feature.name = path_of(last.feature.name)
             \o (IF Contains(last.feature.name, " cardinality [1..*]")
                 THEN " cardinality [1..*]" ELSE "")

\* the records written to the descriptions file, the three categories together
saved_records ==
    descriptions_file.values \o descriptions_file.restrictions
        \o descriptions_file.dependencies

\* C30: when the generation run has written its files, every stored record
\* names a feature of the tree that was written: a node with the qualified
\* path of the record exists, and no record is left from a property the
\* cycle guard skipped.
EveryRecordNamesANode ==
    pc # "generate"
    => \A i \in 1..Len(saved_records) :
          path_of(saved_records[i].feature_name) \in Range(feature_paths)

====
